---- MODULE Spec2Model ----
(***************************************************************************)
(* Session manager and attendance classifier of the Smart Face Attendance  *)
(* System (backend/controllers/attendanceController.js).                   *)
(*                                                                         *)
(* Each exported handler is one action.  The state is the two collections  *)
(* the handlers write (AttendanceSession, Attendance), the in-process      *)
(* registry activeSessions and the server clock.  resp holds the response  *)
(* the last handler sent, req the batch the last markAttendance            *)
(* classified.                                                             *)
(*                                                                         *)
(* The second part is the liveness challenge of the browser                *)
(* (frontend/src/components/LivenessChallenge.jsx with the challenge       *)
(* runner of frontend/src/ai/livenessChallenges.js): one mounted component *)
(* instance, each callback the event loop runs being one action.           *)
(*                                                                         *)
(* Not modelled: the AuditLog collection (append only, read by no          *)
(* handler), and the Attendance fields time, lastScanTime and              *)
(* capturedOffline (copied from the request or the clock, read by no       *)
(* decision).                                                              *)
(***************************************************************************)
EXTENDS Integers, Sequences, FiniteSets, TLC

VARIABLES
    now,             \* server clock, minutes since the epoch (new Date())
    sessions,        \* AttendanceSession collection; sessionId = index
    activeSessions,  \* the Map sessionId -> {classId, lecturerId, date, createdAt}
    attendance,      \* Attendance collection; _id = index
    req,             \* the batch markAttendance classified last
    resp,            \* the response sent last, with the handler and sessionId
    inflight,        \* the markAttendance calls that are between two awaits
    challenge,       \* the challenge of the LivenessChallenge instance
    mounted,         \* the component is mounted
    challengeStatus, \* status: detecting | success | failed
    timeLeft,        \* the countdown, seconds
    timer,           \* the interval of the countdown effect is running
    progress,        \* {current, required}
    noFaceCount,
    frameRef,        \* frameRef.current
    runner,          \* the detector state behind runnerRef.current
    loop,            \* the runDetection closure of the detection effect in force
    zombies,         \* the closures of earlier effects that still have work pending
    sinceCall,       \* ms since the landmark provider was called last
    calls,           \* how often onSuccess, onFail and onRetry were invoked
    fed              \* the frames given to a runner that is driven by itself,
                     \* each with what run() returned; where the component's
                     \* run calls are noted, the frame index of each

server == <<now, sessions, activeSessions, attendance, req, resp, inflight>>

component ==
    <<challenge, mounted, challengeStatus, timeLeft, timer, progress,
      noFaceCount, frameRef, runner, loop, zombies, sinceCall, calls>>

vars == <<server, component, fed>>

----------------------------------------------------------------------------
(* Bounds of the model *)

MaxSessions == 1     \* sessions started in one run
MaxRecords == 1      \* (student, class, date, session) tuples recorded in one run
MaxBatch == 1        \* length of recognizedStudents
Horizon == 6         \* minutes the clock advances in one run
MaxHistory == 3      \* earlier days with records when a run starts

(* Program constants *)

LATE_THRESHOLD_MINUTES == 5
MAX_CONSECUTIVE_LATE == 3
PREVIOUS_LIMIT == 3
MinutesPerDay == 1440

(* The users, classes and students the requests draw from *)

Actors == {"l1", "l2", "adm"}          \* pass authorize('superadmin','admin','lecturer')
Users == Actors \cup {"vw"}            \* the read routes also admit viewer
Classes == {"c1", "c2"}
Students == {"s1", "s2"}
NoClass == "c0"                        \* an id Class.findById does not find
Missing == "none"                      \* a field the request leaves out
NoRemark == "none"
NoTime == -1                           \* endTime of a session not ended
Statuses == {"present", "late", "absent", "excused"}

Role(u) ==
    IF u = "adm" THEN "admin" ELSE IF u = "vw" THEN "viewer" ELSE "lecturer"

ClassLecturer(c) == IF c = "c1" THEN "l1" ELSE "l2"

\* Student.countDocuments({classId}): c2 has no enrolled student
StudentCount(c) == IF c = "c1" THEN 2 ELSE 0

\* new Date().toISOString().split('T')[0]: the UTC calendar day
DateOf(t) == t \div MinutesPerDay

Min(a, b) == IF a < b THEN a ELSE b

\* the run starts five minutes before midnight UTC, so that a session can
\* span two calendar days, on a day that leaves room for MaxHistory earlier ones
StartClock == (MaxHistory + 1) * MinutesPerDay - LATE_THRESHOLD_MINUTES

----------------------------------------------------------------------------
(* Requests and responses *)

\* no batch classified by the last handler
NoReq == [user |-> Missing, classId |-> Missing, batch |-> <<>>, faults |-> <<>>]

\* res.status(code).json({results}) of handler op called for sessionId sid
Response(op, sid, code) == [op |-> op, sid |-> sid, code |-> code, results |-> <<>>]

----------------------------------------------------------------------------
(* markAttendance: the classification of one scan *)

\* the query without the filter on the date
PreviousAttendancesAnyDate(att, studentId, classId, today) ==
    {i \in DOMAIN att : /\ att[i].studentId = studentId
                        /\ att[i].classId = classId}

\* the query with $lte in place of $lt
PreviousAttendancesThroughToday(att, studentId, classId, today) ==
    {i \in DOMAIN att : /\ att[i].studentId = studentId
                        /\ att[i].classId = classId
                        /\ att[i].date <= today}

\* Attendance.find({studentId, classId, date: {$lt: today}})
PreviousAttendances(att, studentId, classId, today) ==
    {i \in DOMAIN att : /\ att[i].studentId = studentId
                        /\ att[i].classId = classId
                        /\ att[i].date < today}

MaxDate(att, R) ==
    CHOOSE d \in {att[i].date : i \in R} : \A i \in R : att[i].date <= d

\* .sort({date: -1}).limit(3), then the loop that counts the leading late
\* documents.  The sort leaves the order of documents of one date open, so the
\* loop can see any order of them: the result is the set of counts it can reach.
RECURSIVE ConsecutiveLateCounts(_, _)
ConsecutiveLateCounts(att, R) ==
    IF R = {} THEN {0}
    ELSE LET d == MaxDate(att, R)
             G == {i \in R : att[i].date = d}
             L == {i \in G : att[i].status = "late"}
         IN  IF L = G
             THEN {Min(PREVIOUS_LIMIT, Cardinality(G) + k) :
                       k \in ConsecutiveLateCounts(att, R \ G)}
             ELSE {Min(PREVIOUS_LIMIT, j) : j \in 0..Cardinality(L)}

\* Variant: late from the threshold on, not after it.
IsLateAtThreshold(t, startTime) == t - startTime >= LATE_THRESHOLD_MINUTES

\* minutesLate > LATE_THRESHOLD_MINUTES
IsLate(t, startTime) == t - startTime > LATE_THRESHOLD_MINUTES

\* the late branch: one more late, absent at MAX_CONSECUTIVE_LATE
LateOrAbsent(consecutiveLateCount) ==
    IF consecutiveLateCount + 1 >= MAX_CONSECUTIVE_LATE
    THEN [status |-> "absent", count |-> 0]
    ELSE [status |-> "late", count |-> consecutiveLateCount + 1]

\* Variant: an explicit present is stored as given, late or not.
ResolveStatusKeepsPresent(status, isLate, consecutiveLateCount) ==
    IF status = Missing
    THEN IF isLate THEN LateOrAbsent(consecutiveLateCount)
                   ELSE [status |-> "present", count |-> 0]
    ELSE IF status = "present" THEN [status |-> "present", count |-> 0]
    ELSE [status |-> status, count |-> consecutiveLateCount]

\* "Determine final status": finalStatus and finalConsecutiveLateCount
ResolveStatus(status, isLate, consecutiveLateCount) ==
    IF status = Missing
    THEN IF isLate THEN LateOrAbsent(consecutiveLateCount)
                   ELSE [status |-> "present", count |-> 0]
    ELSE IF status = "present" /\ isLate THEN LateOrAbsent(consecutiveLateCount)
    ELSE IF status = "present" /\ ~isLate THEN [status |-> "present", count |-> 0]
    ELSE [status |-> status, count |-> consecutiveLateCount]

\* the documents the filter {studentId, classId, date, sessionId} matches
Matching(att, studentId, classId, date, sessionId) ==
    {i \in DOMAIN att : /\ att[i].studentId = studentId
                        /\ att[i].classId = classId
                        /\ att[i].date = date
                        /\ att[i].sessionId = sessionId}

\* Variant: a create in place of the upsert.
UpsertAlwaysInserts(att, doc) == Append(att, doc)

\* Attendance.findOneAndUpdate(filter, doc, {upsert: true, new: true}):
\* the first matching document is updated (its remark is not in the update),
\* and a document is inserted when none matches
Upsert(att, doc) ==
    LET m == Matching(att, doc.studentId, doc.classId, doc.date, doc.sessionId)
    IN  IF m = {}
        THEN Append(att, doc)
        ELSE LET i == CHOOSE i \in m : \A j \in m : i <= j
             IN  [att EXCEPT ![i] = [doc EXCEPT !.remark = att[i].remark]]

UpsertId(att, doc) ==
    LET m == Matching(att, doc.studentId, doc.classId, doc.date, doc.sessionId)
    IN  IF m = {} THEN Len(att) + 1 ELSE CHOOSE i \in m : \A j \in m : i <= j

\* one pass of the loop over recognizedStudents; acc = [att, results],
\* e the scanned entry, k the consecutive late count the lookup gave
MarkOne(acc, rq, sid, e, k, startTime, t) ==
    LET isLate == IsLate(t, startTime)
        fin == ResolveStatus(e.status, isLate, k)
        doc == [studentId |-> e.studentId,
                classId |-> rq.classId,
                lecturerId |-> rq.user,
                date |-> DateOf(t),
                status |-> fin.status,
                consecutiveLateCount |-> fin.count,
                sessionId |-> sid,
                remark |-> NoRemark]
    IN  [att |-> Upsert(acc.att, doc),
         results |-> Append(acc.results,
                        [studentId |-> e.studentId,
                         attendanceId |-> UpsertId(acc.att, doc),
                         status |-> "saved",
                         isLate |-> isLate,
                         finalStatus |-> fin.status,
                         consecutiveLateCount |-> fin.count])]

\* what the queries of one pass can do: succeed, or throw an error with
\* code 11000 (duplicate key), or throw another error
Faults == {"none", "duplicate", "other"}

NoFaults(batch) == [i \in 1..Len(batch) |-> "none"]

\* the catch block without the branch for error code 11000
MarkFailedAsError(acc, e, f) ==
    [att |-> acc.att,
     results |-> Append(acc.results, [studentId |-> e.studentId, status |-> "error"])]

\* one pass of the loop in which a query throws: the catch block
MarkFailed(acc, e, f) ==
    [att |-> acc.att,
     results |-> Append(acc.results,
                    [studentId |-> e.studentId,
                     status |-> IF f = "duplicate" THEN "duplicate" ELSE "error"])]

\* the loop over recognizedStudents; fs[i] is what the queries of pass i do
RECURSIVE MarkAll(_, _, _, _, _, _, _)
MarkAll(acc, rq, sid, ks, fs, startTime, t) ==
    LET i == Len(acc.results) + 1
    IN  IF i > Len(rq.batch) THEN acc
        ELSE MarkAll(IF fs[i] = "none"
                     THEN MarkOne(acc, rq, sid, rq.batch[i], ks[i], startTime, t)
                     ELSE MarkFailed(acc, rq.batch[i], fs[i]),
                     rq, sid, ks, fs, startTime, t)

\* the (studentId, classId, date, sessionId) tuples of the records of date d
\* or later
KeysSince(att, d) ==
    {<<att[i].studentId, att[i].classId, att[i].date, att[i].sessionId>> :
        i \in {j \in DOMAIN att : att[j].date >= d}}

\* results.filter((r) => r.status === 'saved').length
SavedCount(results) ==
    Cardinality({i \in DOMAIN results : results[i].status = "saved"})

\* the consecutive late counts the lookups of one batch can give
LookupChoices(att, rq, t) ==
    LET K == [i \in 1..Len(rq.batch) |->
                 ConsecutiveLateCounts(att,
                     PreviousAttendances(att, rq.batch[i].studentId,
                                         rq.classId, DateOf(t)))]
    IN  {ks \in [1..Len(rq.batch) -> 0..PREVIOUS_LIMIT] :
            \A i \in 1..Len(rq.batch) : ks[i] \in K[i]}

----------------------------------------------------------------------------
(* The handlers *)

SessionIds == 0..(MaxSessions + 1)     \* 0: no sessionId in the request;
                                       \* MaxSessions + 1: an id never issued
AttendanceIds == 0..(MaxRecords + 1)   \* likewise for attendanceId

\* recognizedStudents, the entries sent without a status
Batches ==
    UNION {[1..n -> [studentId : Students, status : {Missing}]] : n \in 0..MaxBatch}

\* Variant: the session document is created as completed.
NewSessionCompleted(u, classId, t) ==
    [classId |-> classId,
     lecturerId |-> u,
     startTime |-> t,
     endTime |-> NoTime,
     date |-> DateOf(t),
     totalStudents |-> StudentCount(classId),
     status |-> "completed",
     presentCount |-> 0,
     absentCount |-> 0,
     lateCount |-> 0]

\* the document AttendanceSession.create stores
NewSession(u, classId, t) ==
    [classId |-> classId,
     lecturerId |-> u,
     startTime |-> t,
     endTime |-> NoTime,
     date |-> DateOf(t),
     totalStudents |-> StudentCount(classId),
     status |-> "active",
     presentCount |-> 0,
     absentCount |-> 0,
     lateCount |-> 0]

\* the entry activeSessions.set stores
NewActive(u, classId, t) ==
    [classId |-> classId, lecturerId |-> u, date |-> DateOf(t), createdAt |-> t]

\* Variant: the session is not put in the registry.
RegisteredNothing(active, sessionId, entry) == active

\* activeSessions.set(sessionId, entry)
Registered(active, sessionId, entry) ==
    [s \in DOMAIN active \cup {sessionId} |->
        IF s = sessionId THEN entry ELSE active[s]]

StartSession(u, classId) ==
    /\ req' = NoReq
    /\ UNCHANGED <<component, fed, inflight, now, attendance>>
    /\ IF classId = Missing
       THEN /\ resp' = Response("startSession", 0, 400)
            /\ UNCHANGED <<sessions, activeSessions>>
       ELSE IF classId \notin Classes
       THEN /\ resp' = Response("startSession", 0, 404)
            /\ UNCHANGED <<sessions, activeSessions>>
       ELSE IF Role(u) = "lecturer" /\ ClassLecturer(classId) # u
       THEN /\ resp' = Response("startSession", 0, 403)
            /\ UNCHANGED <<sessions, activeSessions>>
       ELSE /\ Len(sessions) < MaxSessions
            /\ sessions' = Append(sessions, NewSession(u, classId, now))
            /\ activeSessions' = Registered(activeSessions, Len(sessions) + 1,
                                            NewActive(u, classId, now))
            /\ resp' = Response("startSession", Len(sessions) + 1, 200)

\* the loop over recognizedStudents and the response that reports it
Classified(rq, sid) ==
    \E ks \in LookupChoices(attendance, rq, now) :
        LET out == MarkAll([att |-> attendance, results |-> <<>>],
                           rq, sid, ks, rq.faults, sessions[sid].startTime, now)
        IN  /\ Cardinality(KeysSince(out.att, DateOf(StartClock))) <= MaxRecords
            /\ attendance' = out.att
            /\ req' = rq
            /\ resp' = [Response("markAttendance", sid, 200)
                           EXCEPT !.results = out.results]

\* Variant: the session is looked up in the collection only, not in the registry.
MarkAttendanceByDocument(u, sid, classId, batch, fs) ==
    LET rq == [user |-> u, classId |-> classId, batch |-> batch, faults |-> fs]
    IN  /\ UNCHANGED <<component, fed, inflight, now, sessions, activeSessions>>
        /\ IF sid = 0 \/ classId = Missing
           THEN /\ resp' = Response("markAttendance", sid, 400)
                /\ UNCHANGED attendance
                /\ req' = NoReq
           ELSE IF sid \notin DOMAIN sessions
           THEN /\ resp' = Response("markAttendance", sid, 404)
                /\ UNCHANGED attendance
                /\ req' = NoReq
           ELSE Classified(rq, sid)

\* Variant: a session whose class had no enrolled student takes no scan.
MarkAttendanceNeedsStudents(u, sid, classId, batch, fs) ==
    LET rq == [user |-> u, classId |-> classId, batch |-> batch, faults |-> fs]
    IN  /\ UNCHANGED <<component, fed, inflight, now, sessions, activeSessions>>
        /\ IF sid = 0 \/ classId = Missing
           THEN /\ resp' = Response("markAttendance", sid, 400)
                /\ UNCHANGED attendance
                /\ req' = NoReq
           ELSE IF sid \notin DOMAIN activeSessions
           THEN /\ resp' = Response("markAttendance", sid, 404)
                /\ UNCHANGED attendance
                /\ req' = NoReq
           ELSE IF sid \notin DOMAIN sessions
           THEN /\ resp' = Response("markAttendance", sid, 404)
                /\ UNCHANGED attendance
                /\ req' = NoReq
           ELSE IF sessions[sid].totalStudents = 0
           THEN /\ resp' = Response("markAttendance", sid, 400)
                /\ UNCHANGED attendance
                /\ req' = NoReq
           ELSE Classified(rq, sid)

MarkAttendance(u, sid, classId, batch, fs) ==
    LET rq == [user |-> u, classId |-> classId, batch |-> batch, faults |-> fs]
    IN  /\ UNCHANGED <<component, fed, inflight, now, sessions, activeSessions>>
        /\ IF sid = 0 \/ classId = Missing
           THEN /\ resp' = Response("markAttendance", sid, 400)
                /\ UNCHANGED attendance
                /\ req' = NoReq
           ELSE IF sid \notin DOMAIN activeSessions
           THEN /\ resp' = Response("markAttendance", sid, 404)
                /\ UNCHANGED attendance
                /\ req' = NoReq
           ELSE IF sid \notin DOMAIN sessions
           THEN /\ resp' = Response("markAttendance", sid, 404)
                /\ UNCHANGED attendance
                /\ req' = NoReq
           ELSE Classified(rq, sid)

\* Attendance.findByIdAndUpdate(attendanceId, {status, remark}): a remark the
\* request leaves out is not part of the update
Overridden(att, id, status, remark) ==
    [att EXCEPT ![id] = [@ EXCEPT !.status = status,
                                  !.remark = IF remark = NoRemark THEN @ ELSE remark]]

ManualOverride(u, id, status, remark) ==
    /\ req' = NoReq
    /\ UNCHANGED <<component, fed, inflight, now, sessions, activeSessions>>
    /\ IF id = 0 \/ status = Missing
       THEN /\ resp' = Response("manualOverride", 0, 400)
            /\ UNCHANGED attendance
       ELSE IF status \notin Statuses
       THEN /\ resp' = Response("manualOverride", 0, 400)
            /\ UNCHANGED attendance
       ELSE IF id \notin DOMAIN attendance
       THEN /\ resp' = Response("manualOverride", 0, 404)
            /\ UNCHANGED attendance
       ELSE /\ attendance' = Overridden(attendance, id, status, remark)
            /\ resp' = IF Role(u) = "lecturer" /\ attendance[id].lecturerId # u
                       THEN Response("manualOverride", 0, 403)
                       ELSE Response("manualOverride", 0, 200)

\* Attendance.aggregate([{$match: {sessionId}}, {$group: {_id: '$status', ...}}])
\* and the find of one status in it
StatusCount(att, sessionId, status) ==
    Cardinality({i \in DOMAIN att : /\ att[i].sessionId = sessionId
                                    /\ att[i].status = status})

\* Variant: absentCount takes the count of the late records.
EndedCopiesLate(doc, att, sessionId, t) ==
    [doc EXCEPT !.endTime = t,
                !.presentCount = StatusCount(att, sessionId, "present"),
                !.absentCount = StatusCount(att, sessionId, "late"),
                !.lateCount = StatusCount(att, sessionId, "late"),
                !.status = "completed"]

\* the fields endSession sets on the session document before save()
Ended(doc, att, sessionId, t) ==
    [doc EXCEPT !.endTime = t,
                !.presentCount = StatusCount(att, sessionId, "present"),
                !.absentCount = StatusCount(att, sessionId, "absent"),
                !.lateCount = StatusCount(att, sessionId, "late"),
                !.status = "completed"]

\* Variant: the registry entry is kept.
DeletedNothing(active, sessionId) == active

\* activeSessions.delete(sessionId)
Deleted(active, sessionId) ==
    [s \in DOMAIN active \ {sessionId} |-> active[s]]

\* Variant: the owner is checked after the session document is saved.
EndSessionChecksAfterSave(u, sid) ==
    /\ req' = NoReq
    /\ UNCHANGED <<component, fed, inflight, now, attendance>>
    /\ IF sid = 0
       THEN /\ resp' = Response("endSession", sid, 400)
            /\ UNCHANGED <<sessions, activeSessions>>
       ELSE IF sid \notin DOMAIN activeSessions
       THEN /\ resp' = Response("endSession", sid, 404)
            /\ UNCHANGED <<sessions, activeSessions>>
       ELSE /\ sessions' = IF sid \in DOMAIN sessions
                           THEN [sessions EXCEPT
                                     ![sid] = Ended(@, attendance, sid, now)]
                           ELSE sessions
            /\ IF activeSessions[sid].lecturerId # u
               THEN /\ resp' = Response("endSession", sid, 403)
                    /\ UNCHANGED activeSessions
               ELSE /\ activeSessions' = Deleted(activeSessions, sid)
                    /\ resp' = Response("endSession", sid, 200)

\* Variant: the session is looked up in the collection, not in the registry.
EndSessionByDocument(u, sid) ==
    /\ req' = NoReq
    /\ UNCHANGED <<component, fed, inflight, now, attendance>>
    /\ IF sid = 0
       THEN /\ resp' = Response("endSession", sid, 400)
            /\ UNCHANGED <<sessions, activeSessions>>
       ELSE IF sid \notin DOMAIN sessions
       THEN /\ resp' = Response("endSession", sid, 404)
            /\ UNCHANGED <<sessions, activeSessions>>
       ELSE IF sessions[sid].lecturerId # u
       THEN /\ resp' = Response("endSession", sid, 403)
            /\ UNCHANGED <<sessions, activeSessions>>
       ELSE /\ sessions' = [sessions EXCEPT ![sid] = Ended(@, attendance, sid, now)]
            /\ activeSessions' = Deleted(activeSessions, sid)
            /\ resp' = Response("endSession", sid, 200)

EndSession(u, sid) ==
    /\ req' = NoReq
    /\ UNCHANGED <<component, fed, inflight, now, attendance>>
    /\ IF sid = 0
       THEN /\ resp' = Response("endSession", sid, 400)
            /\ UNCHANGED <<sessions, activeSessions>>
       ELSE IF sid \notin DOMAIN activeSessions
       THEN /\ resp' = Response("endSession", sid, 404)
            /\ UNCHANGED <<sessions, activeSessions>>
       ELSE IF activeSessions[sid].lecturerId # u
       THEN /\ resp' = Response("endSession", sid, 403)
            /\ UNCHANGED <<sessions, activeSessions>>
       ELSE /\ sessions' = IF sid \in DOMAIN sessions
                           THEN [sessions EXCEPT
                                     ![sid] = Ended(@, attendance, sid, now)]
                           ELSE sessions
            /\ activeSessions' = Deleted(activeSessions, sid)
            /\ resp' = Response("endSession", sid, 200)

----------------------------------------------------------------------------
(* The read handlers *)

\* Class.find({lecturerId: user._id})
AssignedClasses(u) == {c \in Classes : ClassLecturer(c) = u}

\* the sessions AttendanceSession.find(query) returns in getSessionHistory
HistoryQuery(ses, u, classId) ==
    {s \in DOMAIN ses :
        /\ ses[s].status = "completed"
        /\ classId # Missing => ses[s].classId = classId
        /\ Role(u) = "lecturer" =>
               /\ ses[s].classId \in AssignedClasses(u)
               /\ ses[s].lecturerId = u}

\* Variant: the counts of every session found are recalculated and saved.
RecalculatedAlways(doc, att, sessionId) ==
    IF doc.endTime # NoTime
    THEN [doc EXCEPT !.presentCount = StatusCount(att, sessionId, "present"),
                     !.absentCount = StatusCount(att, sessionId, "absent"),
                     !.lateCount = StatusCount(att, sessionId, "late")]
    ELSE doc

\* "Recalculate stats from attendance records if missing": the document as
\* stored after the map over the sessions found; save() runs only when the
\* session has an endTime
Recalculated(doc, att, sessionId) ==
    IF (doc.endTime = NoTime \/ doc.presentCount = 0) /\ doc.endTime # NoTime
    THEN [doc EXCEPT !.presentCount = StatusCount(att, sessionId, "present"),
                     !.absentCount = StatusCount(att, sessionId, "absent"),
                     !.lateCount = StatusCount(att, sessionId, "late")]
    ELSE doc

HistoryServed(u, classId) ==
    LET found == HistoryQuery(sessions, u, classId)
    IN  /\ sessions' = [s \in DOMAIN sessions |->
                           IF s \in found
                           THEN Recalculated(sessions[s], attendance, s)
                           ELSE sessions[s]]
        /\ resp' = Response("getSessionHistory", 0, 200)

GetSessionHistory(u, classId) ==
    /\ req' = NoReq
    /\ UNCHANGED <<component, fed, inflight, now, activeSessions, attendance>>
    /\ IF Role(u) \in {"superadmin", "admin"}
       THEN HistoryServed(u, classId)
       ELSE IF Role(u) = "lecturer"
       THEN IF AssignedClasses(u) = {}
            THEN resp' = Response("getSessionHistory", 0, 200) /\ UNCHANGED sessions
            ELSE IF classId # Missing /\ classId \notin AssignedClasses(u)
            THEN resp' = Response("getSessionHistory", 0, 403) /\ UNCHANGED sessions
            ELSE HistoryServed(u, classId)
       ELSE IF Role(u) = "viewer"
       THEN resp' = Response("getSessionHistory", 0, 200) /\ UNCHANGED sessions
       ELSE resp' = Response("getSessionHistory", 0, 403) /\ UNCHANGED sessions

\* getSessionDetails reads one session and its records.  For a lecturer the
\* class ids it compares with are the renderings of the class documents, which
\* equal no id.
GetSessionDetails(u, sid) ==
    /\ req' = NoReq
    /\ UNCHANGED <<component, fed, inflight, now, sessions, activeSessions, attendance>>
    /\ resp' =
           IF sid = 0 THEN Response("getSessionDetails", 0, 400)
           ELSE IF Role(u) = "viewer" THEN Response("getSessionDetails", 0, 403)
           ELSE IF sid \notin DOMAIN sessions
           THEN Response("getSessionDetails", 0, 404)
           ELSE IF Role(u) = "lecturer" THEN Response("getSessionDetails", 0, 403)
           ELSE Response("getSessionDetails", 0, 200)

\* the role checks getAttendanceHistory and getCalendarAttendance share
ReadCode(u, classId) ==
    IF /\ Role(u) = "lecturer"
       /\ AssignedClasses(u) # {}
       /\ classId # Missing
       /\ classId \notin AssignedClasses(u)
    THEN 403
    ELSE 200

GetAttendanceHistory(u, classId) ==
    /\ req' = NoReq
    /\ UNCHANGED <<component, fed, inflight, now, sessions, activeSessions, attendance>>
    /\ resp' = Response("getAttendanceHistory", 0, ReadCode(u, classId))

GetCalendarAttendance(u, classId) ==
    /\ req' = NoReq
    /\ UNCHANGED <<component, fed, inflight, now, sessions, activeSessions, attendance>>
    /\ resp' = Response("getCalendarAttendance", 0, ReadCode(u, classId))

----------------------------------------------------------------------------
(* The challenge runner (frontend/src/ai/livenessChallenges.js) *)

\* ratios are kept as integers: EAR in hundredths, the other two in percent
EAR_OPEN_THRESHOLD == 25
EAR_CLOSED_THRESHOLD == 18
BLINK_DEBOUNCE_FRAMES == 3
HEAD_TURN_THRESHOLD_RATIO == 12
HEAD_TURN_MIN_PX == 30
SMILE_EXPANSION_RATIO == 115

CHALLENGES ==
    <<[type |-> "blink", requiredCount |-> 2],
      [type |-> "head_left", requiredCount |-> 1],
      [type |-> "smile", requiredCount |-> 1]>>

NoWidth == -1                          \* null: no mouth width

Max(a, b) == IF a > b THEN a ELSE b

\* the detectors with lastBlinkFrame starting at 0
NewRunnerAtZero ==
    [blinkCount |-> 0,
     wasClosed |-> FALSE,
     closedFrameCount |-> 0,
     lastBlinkFrame |-> 0,
     neutralMouthWidth |-> NoWidth]

\* the variables of createBlinkDetector and createSmileDetector after
\* creation and after reset()
NewRunner ==
    [blinkCount |-> 0,
     wasClosed |-> FALSE,
     closedFrameCount |-> 0,
     lastBlinkFrame |-> -BLINK_DEBOUNCE_FRAMES - 1,
     neutralMouthWidth |-> NoWidth]

\* reset() of the blink detector without lastBlinkFrame
ResetKeepsLastBlink(r) ==
    [r EXCEPT !.blinkCount = 0,
              !.wasClosed = FALSE,
              !.closedFrameCount = 0,
              !.neutralMouthWidth = NoWidth]

\* reset() of the runner: blinkDetector.reset(); smileDetector.reset()
Reset(r) ==
    [r EXCEPT !.blinkCount = 0,
              !.wasClosed = FALSE,
              !.closedFrameCount = 0,
              !.lastBlinkFrame = -BLINK_DEBOUNCE_FRAMES - 1,
              !.neutralMouthWidth = NoWidth]

\* the detector with <= and >= in the threshold tests
BlinkUpdateInclusive(r, ear, frameIndex) ==
    IF ear <= EAR_CLOSED_THRESHOLD
    THEN [r EXCEPT !.closedFrameCount = @ + 1, !.wasClosed = TRUE]
    ELSE IF ear >= EAR_OPEN_THRESHOLD /\ r.wasClosed
    THEN IF /\ r.closedFrameCount >= 2
            /\ frameIndex - r.lastBlinkFrame > BLINK_DEBOUNCE_FRAMES
         THEN [r EXCEPT !.blinkCount = @ + 1,
                        !.lastBlinkFrame = frameIndex,
                        !.wasClosed = FALSE,
                        !.closedFrameCount = 0]
         ELSE [r EXCEPT !.wasClosed = FALSE, !.closedFrameCount = 0]
    ELSE IF ear >= EAR_OPEN_THRESHOLD
    THEN [r EXCEPT !.wasClosed = FALSE, !.closedFrameCount = 0]
    ELSE r

\* the detector with >= in the debounce test
BlinkUpdateAfterThree(r, ear, frameIndex) ==
    IF ear < EAR_CLOSED_THRESHOLD
    THEN [r EXCEPT !.closedFrameCount = @ + 1, !.wasClosed = TRUE]
    ELSE IF ear > EAR_OPEN_THRESHOLD /\ r.wasClosed
    THEN IF /\ r.closedFrameCount >= 2
            /\ frameIndex - r.lastBlinkFrame >= BLINK_DEBOUNCE_FRAMES
         THEN [r EXCEPT !.blinkCount = @ + 1,
                        !.lastBlinkFrame = frameIndex,
                        !.wasClosed = FALSE,
                        !.closedFrameCount = 0]
         ELSE [r EXCEPT !.wasClosed = FALSE, !.closedFrameCount = 0]
    ELSE IF ear > EAR_OPEN_THRESHOLD
    THEN [r EXCEPT !.wasClosed = FALSE, !.closedFrameCount = 0]
    ELSE r

\* the detector that counts every change from closed to open
BlinkUpdateEager(r, ear, frameIndex) ==
    IF ear < EAR_CLOSED_THRESHOLD
    THEN [r EXCEPT !.closedFrameCount = @ + 1, !.wasClosed = TRUE]
    ELSE IF ear > EAR_OPEN_THRESHOLD /\ r.wasClosed
    THEN [r EXCEPT !.blinkCount = @ + 1,
                   !.lastBlinkFrame = frameIndex,
                   !.wasClosed = FALSE,
                   !.closedFrameCount = 0]
    ELSE IF ear > EAR_OPEN_THRESHOLD
    THEN [r EXCEPT !.wasClosed = FALSE, !.closedFrameCount = 0]
    ELSE r

\* blinkDetector.update, for the average EAR of the two eyes
BlinkUpdate(r, ear, frameIndex) ==
    IF ear < EAR_CLOSED_THRESHOLD
    THEN [r EXCEPT !.closedFrameCount = @ + 1, !.wasClosed = TRUE]
    ELSE IF ear > EAR_OPEN_THRESHOLD /\ r.wasClosed
    THEN IF /\ r.closedFrameCount >= 2
            /\ frameIndex - r.lastBlinkFrame > BLINK_DEBOUNCE_FRAMES
         THEN [r EXCEPT !.blinkCount = @ + 1,
                        !.lastBlinkFrame = frameIndex,
                        !.wasClosed = FALSE,
                        !.closedFrameCount = 0]
         ELSE [r EXCEPT !.wasClosed = FALSE, !.closedFrameCount = 0]
    ELSE IF ear > EAR_OPEN_THRESHOLD
    THEN [r EXCEPT !.wasClosed = FALSE, !.closedFrameCount = 0]
    ELSE r

\* the check with > in place of >=
CheckHeadTurnLeftStrict(diff, width) ==
    100 * diff > Max(100 * HEAD_TURN_MIN_PX, HEAD_TURN_THRESHOLD_RATIO * width)

\* checkHeadTurnLeft, for diff = noseX - faceCenterX and the face box width
CheckHeadTurnLeft(diff, width) ==
    100 * diff >= Max(100 * HEAD_TURN_MIN_PX, HEAD_TURN_THRESHOLD_RATIO * width)

\* the detector that takes every reading as the new baseline
SmileUpdateTracksLast(r, mouthWidth) ==
    IF mouthWidth # NoWidth
    THEN [r EXCEPT !.neutralMouthWidth = mouthWidth]
    ELSE r

\* smileDetector.update: the detector after the reading
SmileUpdate(r, mouthWidth) ==
    IF mouthWidth # NoWidth /\ r.neutralMouthWidth = NoWidth
    THEN [r EXCEPT !.neutralMouthWidth = mouthWidth]
    ELSE r

\* the value returned without the test for a missing baseline: null divides
\* as 0 does
SmilePassedOverNull(r, mouthWidth) ==
    /\ mouthWidth # NoWidth
    /\ IF r.neutralMouthWidth \in {NoWidth, 0}
       THEN mouthWidth > 0
       ELSE 100 * mouthWidth >= SMILE_EXPANSION_RATIO * r.neutralMouthWidth

\* smileDetector.update: the value it returns.  mouthWidth / neutralMouthWidth
\* is Infinity over a baseline of 0, and NaN, which no comparison accepts,
\* when both are 0
SmilePassed(r, mouthWidth) ==
    /\ mouthWidth # NoWidth
    /\ r.neutralMouthWidth # NoWidth
    /\ IF r.neutralMouthWidth = 0
       THEN mouthWidth > 0
       ELSE 100 * mouthWidth >= SMILE_EXPANSION_RATIO * r.neutralMouthWidth

\* the runner that reports blinkCount as the progress
RunUncapped(type, r, reading, frameIndex) ==
    IF type = "blink"
    THEN LET b == BlinkUpdate(r, reading.ear, frameIndex)
             required == CHALLENGES[1].requiredCount
         IN  [runner |-> b,
              passed |-> b.blinkCount >= required,
              progress |-> b.blinkCount,
              required |-> required]
    ELSE IF type = "head_left"
    THEN LET passed == CheckHeadTurnLeft(reading.diff, reading.width)
         IN  [runner |-> r,
              passed |-> passed,
              progress |-> IF passed THEN 1 ELSE 0,
              required |-> 1]
    ELSE LET passed == SmilePassed(r, reading.mouthWidth)
         IN  [runner |-> SmileUpdate(r, reading.mouthWidth),
              passed |-> passed,
              progress |-> IF passed THEN 1 ELSE 0,
              required |-> 1]

\* run(detection, frameIndex) of createChallengeRunner(type): the detector
\* state after the call and the result returned
Run(type, r, reading, frameIndex) ==
    IF type = "blink"
    THEN LET b == BlinkUpdate(r, reading.ear, frameIndex)
             required == CHALLENGES[1].requiredCount
         IN  [runner |-> b,
              passed |-> b.blinkCount >= required,
              progress |-> Min(b.blinkCount, required),
              required |-> required]
    ELSE IF type = "head_left"
    THEN LET passed == CheckHeadTurnLeft(reading.diff, reading.width)
         IN  [runner |-> r,
              passed |-> passed,
              progress |-> IF passed THEN 1 ELSE 0,
              required |-> 1]
    ELSE LET passed == SmilePassed(r, reading.mouthWidth)
         IN  [runner |-> SmileUpdate(r, reading.mouthWidth),
              passed |-> passed,
              progress |-> IF passed THEN 1 ELSE 0,
              required |-> 1]

----------------------------------------------------------------------------
(* The component (frontend/src/components/LivenessChallenge.jsx)           *)
(*                                                                         *)
(* A state update and the effects it re-runs are one step with the         *)
(* callback that made the update.  The rendering clock is kept as ages:    *)
(* sinceRun of a closure is now - lastRun, sinceCall the time since the    *)
(* last provider call, both in steps of ClockStep ms and no further than   *)
(* DETECTION_INTERVAL_MS.  The video element is attached throughout.       *)

MaxZombies == 2      \* closures that outlive the effect that made them
MaxFrames == 2       \* provider calls in one attempt
MaxRetries == 1      \* presses of Try Again

CHALLENGE_TIMEOUT_SEC == 6
DETECTION_INTERVAL_MS == 80
ClockStep == 80
Many == 2                              \* a callback count of Many: that or more

\* what detectFaceWithLandmarks resolves to for a frame with a face, by the
\* quantity the challenge looks at
Readings(type) ==
    IF type = "blink"
    THEN [kind : {"face"}, ear : {15, 20, 30}, diff : {0}, width : {200},
          mouthWidth : {100}]
    ELSE IF type = "head_left"
    THEN [kind : {"face"}, ear : {30}, diff : {0, 30}, width : {200},
          mouthWidth : {100}]
    ELSE [kind : {"face"}, ear : {30}, diff : {0}, width : {200},
          mouthWidth : {NoWidth, 100, 115}]

\* the provider resolves to nothing
NoFace == [kind |-> "noface", ear |-> 0, diff |-> 0, width |-> 0, mouthWidth |-> NoWidth]

\* the provider rejects
Throws == [kind |-> "throws", ear |-> 0, diff |-> 0, width |-> 0, mouthWidth |-> NoWidth]

\* what a call of detectFaceWithLandmarks can settle with
Outcomes(type) == {NoFace, Throws} \cup Readings(type)

\* the closure of one run of the detection effect: the status it captured,
\* now - lastRun, and where runDetection stands: waiting for an animation
\* frame, waiting for the provider, or finished (returned or cancelled)
NewLoop(st) == [status |-> st, sinceRun |-> DETECTION_INTERVAL_MS, pc |-> "raf"]

NoLoop == [status |-> "detecting", sinceRun |-> DETECTION_INTERVAL_MS, pc |-> "done"]

\* the cleanup of the detection effect: cancelAnimationFrame(rafId) stops a
\* closure that waits for a frame and not one that waits for the provider
CleanedUp(lp, zs) == IF lp.pc = "await" THEN Append(zs, lp) ELSE zs

\* the closures at work: 0 is the one of the effect in force
LoopIds == 0..Len(zombies)

LoopAt(i) == IF i = 0 THEN loop ELSE zombies[i]

Without(zs, i) == [j \in 1..(Len(zs) - 1) |-> IF j < i THEN zs[j] ELSE zs[j + 1]]

\* closure i goes on as l
Continued(i, l) ==
    /\ loop' = IF i = 0 THEN l ELSE loop
    /\ zombies' = IF i = 0 THEN zombies ELSE [zombies EXCEPT ![i] = l]

Aged(a) == Min(a + ClockStep, DETECTION_INTERVAL_MS)

Counted(n) == Min(n + 1, Many)

\* useState initial values and the effect on [challenge.type, requiredCount]
Mount(c) ==
    /\ challenge = c
    /\ mounted = TRUE
    /\ challengeStatus = "detecting"
    /\ timeLeft = CHALLENGE_TIMEOUT_SEC
    /\ timer = TRUE
    /\ progress = [current |-> 0, required |-> c.requiredCount]
    /\ noFaceCount = 0
    /\ frameRef = 0
    /\ runner = NewRunner
    /\ loop = NewLoop("detecting")
    /\ zombies = <<>>
    /\ sinceCall = DETECTION_INTERVAL_MS
    /\ calls = [onSuccess |-> 0, onFail |-> 0, onRetry |-> 0, retries |-> 0]
    /\ fed = <<>>

\* no challenge on screen
NoComponent ==
    /\ challenge = CHALLENGES[1]
    /\ mounted = FALSE
    /\ challengeStatus = "detecting"
    /\ timeLeft = CHALLENGE_TIMEOUT_SEC
    /\ timer = FALSE
    /\ progress = [current |-> 0, required |-> CHALLENGES[1].requiredCount]
    /\ noFaceCount = 0
    /\ frameRef = 0
    /\ runner = NewRunner
    /\ loop = NoLoop
    /\ zombies = <<>>
    /\ sinceCall = DETECTION_INTERVAL_MS
    /\ calls = [onSuccess |-> 0, onFail |-> 0, onRetry |-> 0, retries |-> 0]
    /\ fed = <<>>

\* setStatus(st) of a mounted component with the effects on [status] re-run:
\* the countdown effect clears its interval and sets one when detecting, the
\* detection effect cleans up and starts a closure that captures st
StatusSet(st, lp, zs) ==
    /\ challengeStatus' = st
    /\ timer' = (st = "detecting")
    /\ loop' = NewLoop(st)
    /\ zombies' = CleanedUp(lp, zs)

\* the interval callback failing the attempt one tick late (prev <= 0)
TimerTickLate ==
    /\ mounted
    /\ timer
    /\ IF timeLeft <= 0
       THEN /\ timeLeft' = 0
            /\ StatusSet("failed", loop, zombies)
       ELSE /\ timeLeft' = timeLeft - 1
            /\ UNCHANGED <<challengeStatus, timer, loop, zombies>>
    /\ UNCHANGED <<server, fed, challenge, mounted, progress, noFaceCount, frameRef,
                   runner, sinceCall, calls>>

\* the interval callback of the countdown effect
TimerTick ==
    /\ mounted
    /\ timer
    /\ IF timeLeft <= 1
       THEN /\ timeLeft' = 0
            /\ StatusSet("failed", loop, zombies)
       ELSE /\ timeLeft' = timeLeft - 1
            /\ UNCHANGED <<challengeStatus, timer, loop, zombies>>
    /\ UNCHANGED <<server, fed, challenge, mounted, progress, noFaceCount, frameRef,
                   runner, sinceCall, calls>>

\* runDetection of closure i called for an animation frame, up to the await
Frame(i) ==
    LET l == LoopAt(i)
    IN  /\ l.pc = "raf"
        /\ IF l.status # "detecting" \/ l.sinceRun < DETECTION_INTERVAL_MS
           THEN UNCHANGED <<loop, zombies, frameRef, sinceCall>>
           ELSE /\ frameRef < MaxFrames
                /\ i = 0 => Len(zombies) < MaxZombies
                /\ Continued(i, [l EXCEPT !.sinceRun = 0, !.pc = "await"])
                /\ frameRef' = frameRef + 1
                /\ sinceCall' = 0
        /\ UNCHANGED <<server, fed, challenge, mounted, challengeStatus, timeLeft, timer,
                       progress, noFaceCount, runner, calls>>

\* runDetection resumed, without setNoFaceCount(0) for a frame with a face
ResumedKeepsCount(i, o) ==
    LET l == LoopAt(i)
        again == [l EXCEPT !.pc = "raf"]
        result == Run(challenge.type, runner, o, frameRef)
        rest == IF i = 0 THEN zombies ELSE Without(zombies, i)
        mine == IF i = 0 THEN [l EXCEPT !.pc = "done"] ELSE loop
    IN  /\ l.pc = "await"
        /\ UNCHANGED <<server, challenge, mounted, timeLeft, frameRef, sinceCall>>
        /\ IF o = Throws
           THEN /\ Continued(i, again)
                /\ UNCHANGED <<challengeStatus, timer, progress, noFaceCount, runner, calls>>
           ELSE IF o = NoFace
           THEN /\ Continued(i, again)
                /\ noFaceCount' = IF mounted THEN noFaceCount + 1 ELSE noFaceCount
                /\ UNCHANGED <<challengeStatus, timer, progress, runner, calls>>
           ELSE /\ noFaceCount' = noFaceCount
                /\ runner' = result.runner
                /\ progress' = IF mounted
                               THEN [current |-> result.progress,
                                     required |-> result.required]
                               ELSE progress
                /\ IF result.passed
                   THEN /\ calls' = [calls EXCEPT !.onSuccess = Counted(@)]
                        /\ IF mounted /\ challengeStatus # "success"
                           THEN StatusSet("success", mine, rest)
                           ELSE /\ loop' = mine
                                /\ zombies' = rest
                                /\ UNCHANGED <<challengeStatus, timer>>
                   ELSE /\ Continued(i, again)
                        /\ UNCHANGED <<challengeStatus, timer, calls>>

\* runDetection of closure i resumed after the await, the provider having
\* settled with outcome o: what it does to the component
Resumed(i, o) ==
    LET l == LoopAt(i)
        again == [l EXCEPT !.pc = "raf"]
        result == Run(challenge.type, runner, o, frameRef)
        rest == IF i = 0 THEN zombies ELSE Without(zombies, i)
        mine == IF i = 0 THEN [l EXCEPT !.pc = "done"] ELSE loop
    IN  /\ l.pc = "await"
        /\ UNCHANGED <<server, challenge, mounted, timeLeft, frameRef, sinceCall>>
        /\ IF o = Throws
           THEN /\ Continued(i, again)
                /\ UNCHANGED <<challengeStatus, timer, progress, noFaceCount, runner, calls>>
           ELSE IF o = NoFace
           THEN /\ Continued(i, again)
                /\ noFaceCount' = IF mounted THEN noFaceCount + 1 ELSE noFaceCount
                /\ UNCHANGED <<challengeStatus, timer, progress, runner, calls>>
           ELSE /\ noFaceCount' = IF mounted THEN 0 ELSE noFaceCount
                /\ runner' = result.runner
                /\ progress' = IF mounted
                               THEN [current |-> result.progress,
                                     required |-> result.required]
                               ELSE progress
                /\ IF result.passed
                   THEN /\ calls' = [calls EXCEPT !.onSuccess = Counted(@)]
                        /\ IF mounted /\ challengeStatus # "success"
                           THEN StatusSet("success", mine, rest)
                           ELSE /\ loop' = mine
                                /\ zombies' = rest
                                /\ UNCHANGED <<challengeStatus, timer>>
                   ELSE /\ Continued(i, again)
                        /\ UNCHANGED <<challengeStatus, timer, calls>>

Resolve(i, o) == Resumed(i, o) /\ UNCHANGED fed

\* the same, with the frame index given to runner.run noted
ResolveNoted(i, o) ==
    /\ Resumed(i, o)
    /\ fed' = IF o \in {Throws, NoFace} THEN fed
              ELSE Append(fed, [frame |-> frameRef])

\* handleRetry without frameRef.current = 0
HandleRetryKeepsFrame ==
    /\ mounted
    /\ challengeStatus = "failed"
    /\ calls.retries < MaxRetries
    /\ runner' = NewRunner
    /\ timeLeft' = CHALLENGE_TIMEOUT_SEC
    /\ StatusSet("detecting", loop, zombies)
    /\ progress' = [current |-> 0, required |-> challenge.requiredCount]
    /\ noFaceCount' = 0
    /\ calls' = [calls EXCEPT !.onRetry = Counted(@), !.retries = @ + 1]
    /\ UNCHANGED <<server, fed, challenge, mounted, sinceCall, frameRef>>

\* handleRetry, the button shown while failed
HandleRetry ==
    /\ mounted
    /\ challengeStatus = "failed"
    /\ calls.retries < MaxRetries
    /\ runner' = NewRunner
    /\ timeLeft' = CHALLENGE_TIMEOUT_SEC
    /\ StatusSet("detecting", loop, zombies)
    /\ progress' = [current |-> 0, required |-> challenge.requiredCount]
    /\ noFaceCount' = 0
    /\ frameRef' = 0
    /\ calls' = [calls EXCEPT !.onRetry = Counted(@), !.retries = @ + 1]
    /\ UNCHANGED <<server, fed, challenge, mounted, sinceCall>>

\* handleCancel, the other button shown while failed
HandleCancel ==
    /\ mounted
    /\ challengeStatus = "failed"
    /\ calls' = [calls EXCEPT !.onFail = Counted(@)]
    /\ UNCHANGED <<server, fed, challenge, mounted, challengeStatus, timeLeft, timer, progress,
                   noFaceCount, frameRef, runner, loop, zombies, sinceCall>>

\* the parent renders again with another onSuccess or videoRef: the
\* detection effect cleans up and runs again
Rerender ==
    /\ mounted
    /\ loop' = NewLoop(challengeStatus)
    /\ zombies' = CleanedUp(loop, zombies)
    /\ UNCHANGED <<server, fed, challenge, mounted, challengeStatus, timeLeft, timer, progress,
                   noFaceCount, frameRef, runner, sinceCall, calls>>

\* the parent removes the component: the cleanups of the effects run
Unmount ==
    /\ mounted
    /\ mounted' = FALSE
    /\ timer' = FALSE
    /\ loop' = NoLoop
    /\ zombies' = CleanedUp(loop, zombies)
    /\ UNCHANGED <<server, fed, challenge, challengeStatus, timeLeft, progress, noFaceCount,
                   frameRef, runner, sinceCall, calls>>

\* ClockStep ms pass on the rendering clock
Advance ==
    /\ loop' = [loop EXCEPT !.sinceRun = Aged(@)]
    /\ zombies' = [j \in DOMAIN zombies |-> [zombies[j] EXCEPT !.sinceRun = Aged(@)]]
    /\ sinceCall' = Aged(sinceCall)
    /\ UNCHANGED <<server, fed, challenge, mounted, challengeStatus, timeLeft, timer, progress,
                   noFaceCount, frameRef, runner, calls>>

\* the runs of one attempt: animation frames, provider calls that settle,
\* re-runs of the detection effect and the rendering clock, with the frame
\* indices given to the runner noted
NextFrames ==
    \/ \E i \in LoopIds : Frame(i)
    \/ \E i \in LoopIds, o \in Outcomes(challenge.type) : ResolveNoted(i, o)
    \/ Rerender
    \/ Advance

ServerIdle ==
    /\ now = StartClock
    /\ sessions = <<>>
    /\ activeSessions = <<>>
    /\ attendance = <<>>
    /\ req = NoReq
    /\ resp = Response("none", 0, 0)
    /\ inflight = <<>>

InitChallenge ==
    /\ ServerIdle
    /\ \E k \in DOMAIN CHALLENGES : Mount(CHALLENGES[k])

SpecFrames == InitChallenge /\ [][NextFrames]_vars

NextChallenge ==
    \/ TimerTick
    \/ \E i \in LoopIds : Frame(i)
    \/ \E i \in LoopIds, o \in Outcomes(challenge.type) : Resolve(i, o)
    \/ HandleRetry
    \/ HandleCancel
    \/ Rerender
    \/ Unmount
    \/ Advance

SpecChallenge == InitChallenge /\ [][NextChallenge]_vars

\* the interval fires as long as it is set
FairChallenge == SpecChallenge /\ WF_vars(TimerTick)

----------------------------------------------------------------------------
(* The clock and the specification *)

\* the clock advances by d minutes while no request is being served
Tick(d) ==
    /\ now + d <= StartClock + Horizon
    /\ now' = now + d
    /\ req' = NoReq
    /\ resp' = Response("none", 0, 0)
    /\ UNCHANGED <<component, fed, inflight, sessions, activeSessions, attendance>>

Init ==
    /\ now = StartClock
    /\ sessions = <<>>
    /\ activeSessions = <<>>
    /\ attendance = <<>>
    /\ req = NoReq
    /\ resp = Response("none", 0, 0)
    /\ inflight = <<>>
    /\ NoComponent

\* the (status, remark) pairs of the manualOverride requests
Overrides ==
    {<<"present", NoRemark>>, <<"absent", "r1">>, <<"late", "r1">>,
     <<"bogus", NoRemark>>}

\* The lifecycle runs: every handler, the requests served at one reading of
\* the clock, for class c1, the sessions started by a lecturer, the scans
\* sent by the lecturer of the class without a status.
Next ==
    \/ \E u \in {"l1", "l2"}, c \in {"c1", NoClass, Missing} : StartSession(u, c)
    \/ \E sid \in SessionIds, b \in Batches :
          MarkAttendance("l1", sid, "c1", b, NoFaults(b))
    \/ \E u \in Actors, id \in AttendanceIds, o \in Overrides :
          ManualOverride(u, id, o[1], o[2])
    \/ \E u \in Actors, sid \in SessionIds : EndSession(u, sid)
    \/ \E u \in Users, c \in {"c1", Missing} : GetSessionHistory(u, c)
    \/ \E u \in Users, sid \in SessionIds : GetSessionDetails(u, sid)
    \/ \E u \in Users, c \in {"c1", Missing} : GetAttendanceHistory(u, c)
    \/ \E u \in Users, c \in {"c1", Missing} : GetCalendarAttendance(u, c)

Spec == Init /\ [][Next]_vars

----------------------------------------------------------------------------
(* The restart runs: the lifecycle runs with the server process restarted  *)
(* between requests.  The collections are in the database and stay; the    *)
(* module is loaded again, and activeSessions is a new, empty Map.         *)

Restart ==
    /\ activeSessions # <<>>
    /\ activeSessions' = <<>>
    /\ req' = NoReq
    /\ resp' = Response("none", 0, 0)
    /\ UNCHANGED <<component, fed, inflight, now, sessions, attendance>>

NextRestart ==
    \/ Next
    \/ Restart

SpecRestart == Init /\ [][NextRestart]_vars

----------------------------------------------------------------------------
(* The classifier runs: one active session of class c1 started by its      *)
(* lecturer at StartClock, student s1 with records of earlier days, scans  *)
(* of s1 sent one at a time, without a status and with every explicit one, *)
(* and the clock advancing minute by minute.                               *)

\* the status of a scanned entry: left out, or one the request names
ScanStatuses == {Missing} \cup Statuses

\* the records of one earlier day, each of another session of that day
DayStatuses == {<<"late">>, <<"present">>, <<"late", "present">>, <<"late", "late">>}

\* the earlier days, the most recent first
Histories == UNION {[1..n -> DayStatuses] : n \in 0..MaxHistory}

\* the (date, status) pairs of days j.. of history h
RECURSIVE Flattened(_, _)
Flattened(h, j) ==
    IF j > Len(h) THEN <<>>
    ELSE [k \in 1..Len(h[j]) |->
             [date |-> DateOf(StartClock) - j, status |-> h[j][k]]]
         \o Flattened(h, j + 1)

\* record i of the history belongs to session i + 1, which has ended
HistoryAttendance(h) ==
    LET f == Flattened(h, 1)
    IN  [i \in 1..Len(f) |->
            [studentId |-> "s1",
             classId |-> "c1",
             lecturerId |-> "l1",
             date |-> f[i].date,
             status |-> f[i].status,
             consecutiveLateCount |-> 0,
             sessionId |-> i + 1,
             remark |-> NoRemark]]

HistorySessions(h) ==
    LET att == HistoryAttendance(h)
    IN  [i \in 1..Len(att) |->
            Ended(NewSession("l1", "c1", att[i].date * MinutesPerDay),
                  att, i + 1, att[i].date * MinutesPerDay)]

InitClassify ==
    \E h \in Histories :
        /\ now = StartClock
        /\ sessions = <<NewSession("l1", "c1", StartClock)>> \o HistorySessions(h)
        /\ activeSessions = Registered(<<>>, 1, NewActive("l1", "c1", StartClock))
        /\ attendance = HistoryAttendance(h)
        /\ req = NoReq
        /\ resp = Response("none", 0, 0)
        /\ inflight = <<>>
        /\ NoComponent

NextClassify ==
    \/ Tick(1)
    \/ \E status \in ScanStatuses :
          LET b == <<[studentId |-> "s1", status |-> status]>>
          IN  MarkAttendance("l1", 1, "c1", b, NoFaults(b))

SpecClassify == InitClassify /\ [][NextClassify]_vars

----------------------------------------------------------------------------
(* The batch runs: one active session of class c1 started by its lecturer  *)
(* at StartClock, no earlier records, batches of up to MaxBatch + 1        *)
(* entries of students s1 and s2 without a status, each pass of the loop   *)
(* succeeding or throwing, and the clock advancing once, past the late     *)
(* threshold.                                                              *)

LongBatches ==
    UNION {[1..n -> [studentId : Students, status : {Missing}]] :
              n \in 0..(MaxBatch + 1)}

InitBatch ==
    /\ now = StartClock
    /\ sessions = <<NewSession("l1", "c1", StartClock)>>
    /\ activeSessions = Registered(<<>>, 1, NewActive("l1", "c1", StartClock))
    /\ attendance = <<>>
    /\ req = NoReq
    /\ resp = Response("none", 0, 0)
    /\ inflight = <<>>
    /\ NoComponent

NextBatch ==
    \/ Tick(Horizon)
    \/ \E b \in LongBatches : \E fs \in [1..Len(b) -> Faults] :
          MarkAttendance("l1", 1, "c1", b, fs)

SpecBatch == InitBatch /\ [][NextBatch]_vars

----------------------------------------------------------------------------
(* The overlapping runs: markAttendance taken one await at a time.  The    *)
(* handler checks the request and the registry, finds the session document *)
(* and computes today once; then each pass of its loop awaits the lookup   *)
(* of the earlier records and, after it, the upsert.  Other requests are   *)
(* served between two awaits.  One session of class c1 was started by its  *)
(* lecturer at StartClock and still is registered; student s1 has a        *)
(* history; the requests are served at one reading of the clock, at the    *)
(* start of the session or past the late threshold, and no query throws.   *)

MaxCalls == 2        \* markAttendance calls that are in progress together

\* a call that passed its checks (lines 67-87) and enters the loop.  Beside
\* what the handler holds, seen notes for the pass in progress whether the
\* record of today was there already when its lookup ran.
NewCall(rq, sid, doc, t) ==
    [rq |-> rq, sid |-> sid, startTime |-> doc.startTime, today |-> DateOf(t),
     results |-> <<>>, pc |-> "lookup", at |-> t, k |-> 0, seen |-> FALSE]

\* the entry the loop of call c is at
Entry(c) == c.rq.batch[Len(c.results) + 1]

\* lines 67-87: the checks of the request, of the registry and of the session
\* document; an empty recognizedStudents is answered at once
MarkBegin(u, sid, classId, batch) ==
    LET rq == [user |-> u, classId |-> classId, batch |-> batch,
               faults |-> NoFaults(batch)]
    IN  /\ Len(inflight) < MaxCalls
        /\ UNCHANGED <<component, fed, now, sessions, activeSessions, attendance>>
        /\ IF sid = 0 \/ classId = Missing
           THEN /\ resp' = Response("markAttendance", sid, 400)
                /\ req' = NoReq
                /\ UNCHANGED inflight
           ELSE IF sid \notin DOMAIN activeSessions \/ sid \notin DOMAIN sessions
           THEN /\ resp' = Response("markAttendance", sid, 404)
                /\ req' = NoReq
                /\ UNCHANGED inflight
           ELSE IF batch = <<>>
           THEN /\ resp' = Response("markAttendance", sid, 200)
                /\ req' = rq
                /\ UNCHANGED inflight
           ELSE /\ inflight' = Append(inflight, NewCall(rq, sid, sessions[sid], now))
                /\ UNCHANGED <<req, resp>>

\* lines 93-118: currentTime, and the lookup of the earlier records with the
\* loop that counts the leading late ones
MarkLookup(j) ==
    LET c == inflight[j]
        e == Entry(c)
    IN  /\ c.pc = "lookup"
        /\ \E k \in ConsecutiveLateCounts(attendance,
                        PreviousAttendances(attendance, e.studentId,
                                            c.rq.classId, c.today)) :
               inflight' = [inflight EXCEPT ![j] =
                               [c EXCEPT !.pc = "upsert", !.at = now, !.k = k,
                                         !.seen = Matching(attendance, e.studentId,
                                                      c.rq.classId, c.today,
                                                      c.sid) # {}]]
        /\ UNCHANGED <<component, fed, now, sessions, activeSessions, attendance,
                       req, resp>>

\* lines 120-188: the status, the upsert and the result of the pass; after
\* the last pass the response (lines 206-216)
MarkUpsert(j) ==
    LET c == inflight[j]
        out == MarkOne([att |-> attendance, results |-> c.results],
                       c.rq, c.sid, Entry(c), c.k, c.startTime, c.at)
    IN  /\ c.pc = "upsert"
        /\ Cardinality(KeysSince(out.att, DateOf(StartClock))) <= MaxRecords
        /\ attendance' = out.att
        /\ IF Len(out.results) = Len(c.rq.batch)
           THEN /\ inflight' = Without(inflight, j)
                /\ req' = c.rq
                /\ resp' = [Response("markAttendance", c.sid, 200)
                               EXCEPT !.results = out.results]
           ELSE /\ inflight' = [inflight EXCEPT ![j] =
                                   [c EXCEPT !.results = out.results,
                                             !.pc = "lookup"]]
                /\ UNCHANGED <<req, resp>>
        /\ UNCHANGED <<component, fed, now, sessions, activeSessions>>

\* the histories with one record a day
DailyHistories == {h \in Histories : \A j \in DOMAIN h : Len(h[j]) = 1}

\* recognizedStudents of the overlapping requests: student s1, no status
RaceBatches ==
    UNION {[1..n -> [studentId : {"s1"}, status : {Missing}]] : n \in 0..MaxBatch}

InitRace ==
    \E h \in DailyHistories : \E t \in {StartClock, StartClock + Horizon} :
        /\ now = t
        /\ sessions = <<NewSession("l1", "c1", StartClock)>> \o HistorySessions(h)
        /\ activeSessions = Registered(<<>>, 1, NewActive("l1", "c1", StartClock))
        /\ attendance = HistoryAttendance(h)
        /\ req = NoReq
        /\ resp = Response("none", 0, 0)
        /\ inflight = <<>>
        /\ NoComponent

NextRace ==
    \/ \E b \in RaceBatches : MarkBegin("l1", 1, "c1", b)
    \/ \E j \in DOMAIN inflight : MarkLookup(j)
    \/ \E j \in DOMAIN inflight : MarkUpsert(j)
    \/ EndSession("l1", 1)

SpecRace == InitRace /\ [][NextRace]_vars

----------------------------------------------------------------------------
(* The detector runs: a runner of createChallengeRunner driven by itself,  *)
(* frame by frame, the way runDetection drives it (LivenessChallenge.jsx   *)
(* lines 87-99): frameRef.current goes up by one with every frame, a frame *)
(* without a face is not given to the runner, and reset() with             *)
(* frameRef.current = 0 starts over (lines 126-131).                       *)

MaxBlinkFrames == 8  \* frames of a run of the blink detector
MaxGap == 5          \* open frames between two blinks of the long runs
MaxHeadFrames == 2   \* frames of a run of the head-turn check
MaxSmileFrames == 3  \* frames of a run of the smile detector
MaxEarFrames == 4    \* frames of a run of eye readings at the thresholds
MaxAfterReset == 3   \* frames given to a runner after a reset

\* no component on screen, the runner of challenge c as created
Driven(c) ==
    /\ challenge = c
    /\ mounted = FALSE
    /\ challengeStatus = "detecting"
    /\ timeLeft = CHALLENGE_TIMEOUT_SEC
    /\ timer = FALSE
    /\ progress = [current |-> 0, required |-> c.requiredCount]
    /\ noFaceCount = 0
    /\ frameRef = 0
    /\ runner = NewRunner
    /\ loop = NoLoop
    /\ zombies = <<>>
    /\ sinceCall = DETECTION_INTERVAL_MS
    /\ calls = [onSuccess |-> 0, onFail |-> 0, onRetry |-> 0, retries |-> 0]
    /\ fed = <<>>

\* the eye readings that are closed or open, none in between
ClearReadings == {r \in Readings("blink") : r.ear # 20}

\* eye readings below, at, between and above the two thresholds
EarReadings ==
    [kind : {"face"}, ear : {15, 18, 20, 25, 30}, diff : {0}, width : {200},
     mouthWidth : {100}]

\* nose offsets around the thresholds of three face box widths
HeadReadings ==
    [kind : {"face"}, ear : {30}, diff : {-10, 0, 29, 30, 31, 35, 36, 37},
     width : {200, 255, 300}, mouthWidth : {100}]

\* mouth widths, with no landmarks and with coinciding mouth corners
SmileReadings ==
    [kind : {"face"}, ear : {30}, diff : {0}, width : {200},
     mouthWidth : {NoWidth, 0, 100, 114, 115, 120}]

\* frameRef.current += 1; runnerRef.current.run(detection, frameRef.current)
Feed(reading, last) ==
    LET out == Run(challenge.type, runner, reading, frameRef + 1)
    IN  /\ frameRef < last
        /\ frameRef' = frameRef + 1
        /\ runner' = out.runner
        /\ fed' = Append(fed, [frame |-> frameRef + 1,
                               reading |-> reading,
                               passed |-> out.passed,
                               progress |-> out.progress,
                               required |-> out.required,
                               runner |-> out.runner])
        /\ UNCHANGED <<server, challenge, mounted, challengeStatus, timeLeft,
                       timer, progress, noFaceCount, loop, zombies, sinceCall,
                       calls>>

\* frameRef.current += 1 for a frame in which no face is detected
NoFaceFrame(last) ==
    /\ frameRef < last
    /\ frameRef' = frameRef + 1
    /\ UNCHANGED <<server, fed, challenge, mounted, challengeStatus, timeLeft,
                   timer, progress, noFaceCount, runner, loop, zombies,
                   sinceCall, calls>>

\* runnerRef.current.reset(); frameRef.current = 0
RunnerReset ==
    /\ frameRef > 0
    /\ frameRef' = 0
    /\ runner' = Reset(runner)
    /\ fed' = <<>>
    /\ UNCHANGED <<server, challenge, mounted, challengeStatus, timeLeft,
                   timer, progress, noFaceCount, loop, zombies, sinceCall,
                   calls>>

InitBlink == ServerIdle /\ Driven(CHALLENGES[1])

NextBlink ==
    \/ \E r \in Readings("blink") : Feed(r, MaxBlinkFrames)
    \/ NoFaceFrame(MaxBlinkFrames)
    \/ RunnerReset

SpecBlink == InitBlink /\ [][NextBlink]_vars

\* the long runs: every frame has a face with the eyes closed or open
NextPattern ==
    \/ \E r \in ClearReadings : Feed(r, 8 + MaxGap)
    \/ RunnerReset

SpecPattern == InitBlink /\ [][NextPattern]_vars

\* the runs of readings at the thresholds
NextEar ==
    \/ \E r \in EarReadings : Feed(r, MaxEarFrames)
    \/ RunnerReset

SpecEar == InitBlink /\ [][NextEar]_vars

\* the runs of a runner of any of the three challenges, every frame with a
\* face: the long runs of eye readings, the nose offsets and the mouth widths
RunnerReadings(type) ==
    IF type = "blink" THEN ClearReadings
    ELSE IF type = "head_left" THEN HeadReadings
    ELSE SmileReadings

LastFrame(type) ==
    IF type = "blink" THEN 8 + MaxGap
    ELSE IF type = "head_left" THEN MaxHeadFrames
    ELSE MaxSmileFrames

InitRunner == ServerIdle /\ \E k \in DOMAIN CHALLENGES : Driven(CHALLENGES[k])

NextRunner ==
    \/ \E r \in RunnerReadings(challenge.type) :
          Feed(r, LastFrame(challenge.type))
    \/ RunnerReset

SpecRunner == InitRunner /\ [][NextRunner]_vars

InitHead == ServerIdle /\ Driven(CHALLENGES[2])

NextHead ==
    \/ \E r \in HeadReadings : Feed(r, MaxHeadFrames)
    \/ NoFaceFrame(MaxHeadFrames)
    \/ RunnerReset

SpecHead == InitHead /\ [][NextHead]_vars

InitSmile == ServerIdle /\ Driven(CHALLENGES[3])

NextSmile ==
    \/ \E r \in SmileReadings : Feed(r, MaxSmileFrames)
    \/ NoFaceFrame(MaxSmileFrames)
    \/ RunnerReset

SpecSmile == InitSmile /\ [][NextSmile]_vars

----------------------------------------------------------------------------
(* The two-class runs: each lecturer starts a session of either class, c1  *)
(* with its two enrolled students or c2 with none, and sends scans that    *)
(* name either class under any sessionId.                                  *)

NextClasses ==
    \/ \E u \in {"l1", "l2"}, c \in Classes : StartSession(u, c)
    \/ \E u \in {"l1", "l2"}, sid \in SessionIds, c \in Classes, b \in Batches :
          MarkAttendance(u, sid, c, b, NoFaults(b))
    \/ \E u \in {"l1", "l2"}, sid \in SessionIds : EndSession(u, sid)

SpecClasses == Init /\ [][NextClasses]_vars

----------------------------------------------------------------------------
(* Properties of markAttendance *)

\* the tuple the upsert of markAttendance is keyed on
Key(r) == <<r.studentId, r.classId, r.date, r.sessionId>>

RecordsOf(k) == {i \in DOMAIN attendance : Key(attendance[i]) = k}

\* a markAttendance call has just answered 200
Marked == resp.op = "markAttendance" /\ resp.code = 200

\* C1: after any sequence of markAttendance calls the store holds at most one
\* record for each (studentId, classId, date, sessionId) tuple and exactly one
\* for every tuple that was saved: a tuple reported saved has one record, a
\* record keeps its tuple for ever, and a mark call whose tuples all have a
\* record already adds none.
C1_OneRecordPerTuple ==
    /\ [](\A i, j \in DOMAIN attendance :
              Key(attendance[i]) = Key(attendance[j]) => i = j)
    /\ [](Marked =>
              \A k \in DOMAIN resp.results :
                  resp.results[k].status = "saved" =>
                      Cardinality(RecordsOf(<<resp.results[k].studentId, req.classId,
                                              DateOf(now), resp.sid>>)) = 1)
    /\ [][/\ \A i \in DOMAIN attendance :
                 /\ i \in DOMAIN attendance'
                 /\ Key(attendance'[i]) = Key(attendance[i])
          /\ (/\ resp'.op = "markAttendance"
              /\ resp'.code = 200
              /\ \A k \in DOMAIN req'.batch :
                     RecordsOf(<<req'.batch[k].studentId, req'.classId,
                                 DateOf(now), resp'.sid>>) # {})
             => Len(attendance') = Len(attendance)]_vars

\* a mark call has been served for a tuple whose record was there before (the
\* remark shows that manualOverride had written it) and the store holds the
\* one record
C1_Witness ==
    /\ Marked
    /\ Len(attendance) = 1
    /\ \E k \in DOMAIN resp.results :
           /\ resp.results[k].status = "saved"
           /\ attendance[resp.results[k].attendanceId].remark = "r1"

\* the decision table: the status and the streak stored for an explicit
\* status, a lateness and a prior streak
DecisionTable(status, isLate, streak) ==
    IF status \in {Missing, "present"}
    THEN IF ~isLate THEN <<"present", 0>>
         ELSE IF streak + 1 >= 3 THEN <<"absent", 0>>
         ELSE <<"late", streak + 1>>
    ELSE <<status, streak>>

\* the prior streaks the lookup of markAttendance can give for a student
PriorStreaks(studentId) ==
    ConsecutiveLateCounts(attendance,
        PreviousAttendances(attendance, studentId, req.classId, DateOf(now)))

\* C2: the status resolution of markAttendance equals the decision table, for
\* every explicit status (none, present, late, absent, excused), every isLate
\* and every prior streak in 0..3: what the call reports and what it stores
\* for a scanned entry are the table's status and streak.
C2_StatusResolution ==
    Marked =>
        \A i \in DOMAIN req.batch :
            LET e == req.batch[i]
                r == resp.results[i]
                rec == attendance[r.attendanceId]
            IN  \E k \in PriorStreaks(e.studentId) :
                    LET d == DecisionTable(e.status, r.isLate, k)
                    IN  /\ <<r.finalStatus, r.consecutiveLateCount>> = d
                        /\ (\A j \in DOMAIN req.batch :
                                j > i => req.batch[j].studentId # e.studentId)
                           => <<rec.status, rec.consecutiveLateCount>> = d

\* an explicit excused has been stored with the prior streak 3 carried over
C2_Witness ==
    /\ Marked
    /\ \E i \in DOMAIN req.batch :
           /\ req.batch[i].status = "excused"
           /\ PriorStreaks(req.batch[i].studentId) = {3}
           /\ attendance[resp.results[i].attendanceId].status = "excused"
           /\ attendance[resp.results[i].attendanceId].consecutiveLateCount = 3

\* the records of earlier dates of a student in the class of the request
PriorRecords(studentId) ==
    PreviousAttendances(attendance, studentId, req.classId, DateOf(now))

\* the three most recent records of earlier dates are all late, whatever the
\* order of the records of one date
ThreeMostRecentLate(studentId) ==
    \E d \in {attendance[j].date : j \in PriorRecords(studentId)} :
        LET recent == {j \in PriorRecords(studentId) : attendance[j].date >= d}
        IN  /\ Cardinality(recent) >= 3
            /\ \A j \in recent : attendance[j].status = "late"

\* C3: for a session started at T and a scan with no explicit status, a scan
\* processed at most 5 minutes after T (T+4) is stored as present, a scan
\* processed more than 5 minutes after T (T+6) is stored as late when the
\* student has fewer than two prior consecutive lates, and as absent with
\* consecutiveLateCount 0 when the three most recent records of earlier dates
\* are all late; lateness is processing time strictly more than 5 minutes
\* after startTime.
C3_LateThreshold ==
    Marked =>
        \A i \in DOMAIN req.batch :
            req.batch[i].status = Missing =>
                LET elapsed == now - sessions[resp.sid].startTime
                    studentId == req.batch[i].studentId
                    rec == attendance[resp.results[i].attendanceId]
                IN  /\ resp.results[i].isLate <=> elapsed > 5
                    /\ elapsed <= 5 =>
                           rec.status = "present" /\ rec.consecutiveLateCount = 0
                    /\ elapsed > 5 => rec.status \in {"late", "absent"}
                    /\ (elapsed > 5 /\ \A k \in PriorStreaks(studentId) : k < 2)
                           => rec.status = "late"
                    /\ (elapsed > 5 /\ ThreeMostRecentLate(studentId))
                           => rec.status = "absent" /\ rec.consecutiveLateCount = 0

\* a scan without a status processed at T+6 of a student whose three most
\* recent records are late has been stored as absent with count 0
C3_Witness ==
    /\ Marked
    /\ now - sessions[resp.sid].startTime = 6
    /\ \E i \in DOMAIN req.batch :
           /\ req.batch[i].status = Missing
           /\ ThreeMostRecentLate(req.batch[i].studentId)
           /\ attendance[resp.results[i].attendanceId].status = "absent"
           /\ attendance[resp.results[i].attendanceId].consecutiveLateCount = 0

\* C6: a markAttendance call whose sessionId is not in the registry of active
\* sessions fails as a whole with 404: no attendance record is created or
\* modified.
C6_UnknownSessionFailsWhole ==
    [][(/\ resp'.op = "markAttendance"
        /\ resp'.sid # 0
        /\ resp'.sid \notin DOMAIN activeSessions)
       => resp'.code = 404 /\ attendance' = attendance]_vars

\* a batch naming a student has been refused with 404 for a session id that
\* was never issued, with a record in the store
C6_Witness ==
    /\ resp.op = "markAttendance"
    /\ resp.code = 404
    /\ resp.sid \notin DOMAIN sessions
    /\ attendance # <<>>

----------------------------------------------------------------------------
(* Properties of manualOverride *)

\* C4: manualOverride changes the status and the remark of a record only for
\* a lecturer who owns the record or for an elevated role: called by a
\* lecturer who does not own the record it answers 403 and leaves the record
\* as it was.  The handler updates the record before it compares the owner.
C4_ForbiddenOverrideWritesNothing ==
    [][\A u \in Actors, id \in DOMAIN attendance, o \in Overrides :
           (/\ ManualOverride(u, id, o[1], o[2])
            /\ o[1] \in Statuses
            /\ Role(u) = "lecturer"
            /\ attendance[id].lecturerId # u)
           => resp'.code = 403 /\ attendance' = attendance]_vars

----------------------------------------------------------------------------
(* Properties of endSession and of the session life cycle *)

\* the number of records of a session with a status
CountOf(sid, status) ==
    Cardinality({i \in DOMAIN attendance :
                    attendance[i].sessionId = sid /\ attendance[i].status = status})

\* C5: when endSession succeeds the session stored is completed, has an
\* endTime, its presentCount, absentCount and lateCount are the numbers of
\* records of that sessionId that are present, absent and late, and the
\* sessionId is no longer in the registry.
C5_EndSessionPostcondition ==
    (resp.op = "endSession" /\ resp.code = 200) =>
        /\ resp.sid \in DOMAIN sessions
        /\ sessions[resp.sid].status = "completed"
        /\ sessions[resp.sid].endTime # NoTime
        /\ sessions[resp.sid].presentCount = CountOf(resp.sid, "present")
        /\ sessions[resp.sid].absentCount = CountOf(resp.sid, "absent")
        /\ sessions[resp.sid].lateCount = CountOf(resp.sid, "late")
        /\ resp.sid \notin DOMAIN activeSessions

\* a session with a late record has just been ended
C5_Witness ==
    /\ resp.op = "endSession"
    /\ resp.code = 200
    /\ sessions[resp.sid].lateCount = 1
    /\ sessions[resp.sid].absentCount = 0

\* C7: once endSession has succeeded for a sessionId, the id is out of the
\* registry for good and every later markAttendance and endSession for it
\* answers 404 and writes nothing.
C7_EndedSessionStaysGone ==
    /\ [](\A s \in DOMAIN sessions :
              sessions[s].status = "completed" => s \notin DOMAIN activeSessions)
    /\ [][\A s \in DOMAIN sessions :
              (/\ sessions[s].status = "completed"
               /\ resp'.op \in {"markAttendance", "endSession"}
               /\ resp'.sid = s)
              => /\ resp'.code = 404
                 /\ UNCHANGED <<sessions, activeSessions, attendance>>]_vars

\* endSession has been refused with 404 for a session that was ended before
C7_Witness ==
    /\ resp.op = "endSession"
    /\ resp.code = 404
    /\ resp.sid \in DOMAIN sessions
    /\ sessions[resp.sid].status = "completed"

\* C8: an endSession call that fails, with 404 for a sessionId the registry
\* does not hold or with 403 for an actor who did not start the session,
\* writes nothing: sessions, attendance records and registry are unchanged.
C8_FailedEndWritesNothing ==
    [][/\ (resp'.op = "endSession" /\ resp'.code \in {403, 404})
          => UNCHANGED <<sessions, attendance, activeSessions>>
       /\ \A u \in Actors, sid \in SessionIds \ {0} :
              EndSession(u, sid) =>
                  /\ sid \notin DOMAIN activeSessions => resp'.code = 404
                  /\ (sid \in DOMAIN activeSessions /\ sessions[sid].lecturerId # u)
                         => resp'.code = 403]_vars

\* endSession has been refused with 403 for an active session with a record
C8_Witness ==
    /\ resp.op = "endSession"
    /\ resp.code = 403
    /\ resp.sid \in DOMAIN activeSessions
    /\ sessions[resp.sid].status = "active"
    /\ attendance # <<>>

\* the counts of a session document
Counts(doc) == <<doc.presentCount, doc.absentCount, doc.lateCount>>

ReadOps ==
    {"getSessionHistory", "getSessionDetails", "getAttendanceHistory",
     "getCalendarAttendance"}

\* C9 as stated: the counts of a completed session are never written again,
\* and the read handlers modify no session and no attendance record.
C9_CountsWrittenOnce ==
    [][/\ \A s \in DOMAIN sessions :
              sessions[s].status = "completed" =>
                  Counts(sessions'[s]) = Counts(sessions[s])
       /\ resp'.op \in ReadOps => sessions' = sessions /\ attendance' = attendance]_vars

\* C9: the counts of a completed session are written again by getSessionHistory
\* only, and only while the presentCount stored is 0: it stores the counts of
\* the records the session has then.  No other handler changes a completed
\* session, and the read handlers modify no attendance record and, but for
\* those counts, no session.
C9_CountsRewrittenByHistoryOnly ==
    [][/\ \A s \in DOMAIN sessions :
              sessions[s].status = "completed" =>
                  /\ [sessions'[s] EXCEPT !.presentCount = 0, !.absentCount = 0,
                                          !.lateCount = 0]
                         = [sessions[s] EXCEPT !.presentCount = 0, !.absentCount = 0,
                                               !.lateCount = 0]
                  /\ Counts(sessions'[s]) # Counts(sessions[s]) =>
                         /\ resp'.op = "getSessionHistory"
                         /\ sessions[s].presentCount = 0
                         /\ Counts(sessions'[s]) =
                                <<CountOf(s, "present"), CountOf(s, "absent"),
                                  CountOf(s, "late")>>
       /\ resp'.op \in ReadOps =>
              /\ attendance' = attendance
              /\ activeSessions' = activeSessions
              /\ \A s \in DOMAIN sessions :
                     sessions[s].status = "active" => sessions'[s] = sessions[s]
       /\ resp'.op \in ReadOps \ {"getSessionHistory"} => sessions' = sessions]_vars

\* getSessionHistory has answered while a completed session, its stored
\* presentCount 0, holds the counts of its records: one record, overridden to
\* absent and then to late
C9_Witness ==
    /\ resp.op = "getSessionHistory"
    /\ resp.code = 200
    /\ \E s \in DOMAIN sessions :
           /\ sessions[s].status = "completed"
           /\ Counts(sessions[s]) = <<0, 0, 1>>
           /\ \E i \in DOMAIN attendance :
                  /\ attendance[i].sessionId = s
                  /\ attendance[i].remark = "r1"
                  /\ attendance[i].status = "late"

\* C10: a session starts active and its only change of status is from active
\* to completed: no session that was completed is active again.
C10_ActiveThenCompleted ==
    /\ [](\A s \in DOMAIN sessions : sessions[s].status \in {"active", "completed"})
    /\ [][/\ \A s \in DOMAIN sessions :
                 /\ s \in DOMAIN sessions'
                 /\ sessions[s].status = "completed"
                        => sessions'[s].status = "completed"
          /\ \A s \in DOMAIN sessions' \ DOMAIN sessions :
                 sessions'[s].status = "active"]_vars

\* a completed session is still completed after a later manualOverride
C10_Witness ==
    /\ resp.op = "manualOverride"
    /\ resp.code = 200
    /\ \E s \in DOMAIN sessions : sessions[s].status = "completed"

----------------------------------------------------------------------------
(* Properties of the liveness challenge *)

\* the status changes the challenge allows
StatusChanges ==
    {<<"detecting", "success">>, <<"detecting", "failed">>, <<"failed", "detecting">>}

\* C11: the status starts at detecting and changes only from detecting to
\* success, from detecting to failed and from failed to detecting; while the
\* status is failed no step moves it to success or invokes onSuccess.
C11_StatusTransitions ==
    /\ challengeStatus = "detecting"
    /\ [][/\ challengeStatus' # challengeStatus
               => <<challengeStatus, challengeStatus'>> \in StatusChanges
          /\ challengeStatus = "failed"
               => /\ challengeStatus' # "success"
                  /\ calls'.onSuccess = calls.onSuccess]_vars

\* C12: once the status is success it stays success, and as long as the
\* instance is mounted onSuccess has been invoked exactly once when the
\* status is success and not at all otherwise.
C12_SuccessOnce ==
    /\ [][challengeStatus = "success" => challengeStatus' = "success"]_vars
    /\ [](mounted => calls.onSuccess = IF challengeStatus = "success" THEN 1 ELSE 0)

\* the attempt on screen is running
Detecting == mounted /\ challengeStatus = "detecting"

\* C13: an attempt starts with the countdown at 6; while the status is
\* detecting the countdown is positive and its interval is set; the countdown
\* changes only by one down on a tick while detecting, or back to 6 on a
\* retry; the tick that brings it to zero makes the status failed, whatever
\* the detector holds; and with the interval firing no attempt stays in
\* detecting forever.
C13_Countdown ==
    /\ timeLeft = CHALLENGE_TIMEOUT_SEC
    /\ [](Detecting => timer /\ timeLeft \in 1..CHALLENGE_TIMEOUT_SEC)
    /\ [][/\ timeLeft' # timeLeft =>
               \/ /\ Detecting
                  /\ timeLeft' = timeLeft - 1
                  /\ challengeStatus' = IF timeLeft' = 0 THEN "failed" ELSE "detecting"
                  /\ runner' = runner
               \/ /\ challengeStatus = "failed"
                  /\ challengeStatus' = "detecting"
                  /\ timeLeft' = CHALLENGE_TIMEOUT_SEC
          /\ challengeStatus' = "detecting" /\ challengeStatus # "detecting"
               => timeLeft' = CHALLENGE_TIMEOUT_SEC]_vars
    /\ Detecting ~> ~Detecting

\* the countdown ran out on an attempt whose detector had taken readings
C13_Witness ==
    /\ mounted
    /\ challengeStatus = "failed"
    /\ timeLeft = 0
    /\ runner # NewRunner
    /\ frameRef > 0

\* C14: a retry is taken from failed and leaves the status detecting, the
\* detector as created, the countdown at 6 with its interval set, progress
\* 0 of the required count, the no-face counter 0 and the frame index 0; a
\* cancel is taken from failed, invokes onFail once and changes none of
\* these.
C14_RetryAndCancel ==
    [][/\ calls'.retries # calls.retries =>
            /\ challengeStatus = "failed"
            /\ challengeStatus' = "detecting"
            /\ runner' = NewRunner
            /\ timeLeft' = CHALLENGE_TIMEOUT_SEC
            /\ timer'
            /\ progress' = [current |-> 0, required |-> challenge.requiredCount]
            /\ noFaceCount' = 0
            /\ frameRef' = 0
            /\ calls'.onRetry = Counted(calls.onRetry)
            /\ calls'.onFail = calls.onFail
       /\ calls'.onFail # calls.onFail =>
            /\ challengeStatus = "failed"
            /\ calls'.onFail = calls.onFail + 1
            /\ UNCHANGED <<challengeStatus, timeLeft, timer, progress, noFaceCount,
                           frameRef, runner, loop, zombies, mounted>>]_vars

\* a retry has just been taken, after a cancel, on an attempt that had
\* called the provider: the call is still pending
C14_Witness ==
    /\ mounted
    /\ calls.retries = 1
    /\ calls.onRetry = 1
    /\ calls.onFail >= 1
    /\ challengeStatus = "detecting"
    /\ timeLeft = CHALLENGE_TIMEOUT_SEC
    /\ frameRef = 0
    /\ runner = NewRunner
    /\ \E j \in DOMAIN zombies : zombies[j].pc = "await"

\* C15: a call to the landmark provider is made only while the status is
\* detecting.
C15_NoCallAfterLeaving ==
    [][frameRef' = frameRef + 1 => challengeStatus = "detecting"]_vars

\* the closures that wait for an animation frame
Scheduled(zs) == {j \in DOMAIN zs : zs[j].pc = "raf"}

\* C16: once the component is unmounted no callback is invoked, the runner
\* is not fed, no provider call is made and no animation frame is newly
\* scheduled.
C16_NothingAfterUnmount ==
    [][~mounted =>
           /\ calls' = calls
           /\ runner' = runner
           /\ frameRef' = frameRef
           /\ Cardinality(Scheduled(zombies')) <= Cardinality(Scheduled(zombies))]_vars

\* C17: a call to the landmark provider is made no sooner than
\* DETECTION_INTERVAL_MS after the call before it.
C17_CallsThrottled ==
    [][frameRef' = frameRef + 1 => sinceCall >= DETECTION_INTERVAL_MS]_vars

----------------------------------------------------------------------------
(* Properties of a markAttendance batch *)

\* the tag of a pass whose queries did f
Tag(f) == IF f = "none" THEN "saved" ELSE IF f = "duplicate" THEN "duplicate" ELSE "error"

C19_CountsNewRecords ==
    [][resp'.op = "markAttendance" /\ resp'.code = 200
          => SavedCount(resp'.results) = Len(attendance') - Len(attendance)]_vars

----------------------------------------------------------------------------
(* Properties of the consecutive-late streak *)

\* the records of a student in the class of the request dated before today
EarlierRecords(studentId) ==
    {j \in DOMAIN attendance : /\ attendance[j].studentId = studentId
                               /\ attendance[j].classId = req.classId
                               /\ attendance[j].date < DateOf(now)}

\* the lengths the run of late records at the head of R can have when R is
\* ordered by date, the most recent first, the records of one date in any
\* order: H is such a head when no record outside it is more recent than one
\* in it, and then comes a record that is not late, or nothing
HeadRuns(R) ==
    {Cardinality(H) : H \in
        {H \in SUBSET R :
            /\ \A h \in H : attendance[h].status = "late"
            /\ \A h \in H, r \in R \ H : attendance[r].date <= attendance[h].date
            /\ H # R => \E r \in R \ H :
                           /\ attendance[r].status # "late"
                           /\ \A q \in R \ H : attendance[q].date <= attendance[r].date}}

\* the scans that store the streak as computed: an explicit status other
\* than present
StreakStored(e) == e.status \in {"late", "absent", "excused"}

\* C20 as stated: the streak computed for a scan is the length of the whole
\* run of late records at the head of the earlier records, however long.
C20_StreakIsHeadRun ==
    Marked =>
        \A i \in DOMAIN req.batch :
            StreakStored(req.batch[i]) =>
                resp.results[i].consecutiveLateCount
                    \in HeadRuns(EarlierRecords(req.batch[i].studentId))

\* C20 amended: the streak computed for a scan is the length of the run of
\* late records at the head of the earlier records, and 3 when the run is
\* longer than the three records the lookup reads.
C20_StreakIsHeadRunOfThree ==
    Marked =>
        \A i \in DOMAIN req.batch :
            StreakStored(req.batch[i]) =>
                resp.results[i].consecutiveLateCount
                    \in {Min(PREVIOUS_LIMIT, n) :
                            n \in HeadRuns(EarlierRecords(req.batch[i].studentId))}

\* a scan with two late records at the head of five earlier ones, the third
\* not late: the streak stored is 2
C20_Witness ==
    /\ Marked
    /\ \E i \in DOMAIN req.batch :
           /\ req.batch[i].status = "excused"
           /\ Cardinality(EarlierRecords(req.batch[i].studentId)) = 5
           /\ HeadRuns(EarlierRecords(req.batch[i].studentId)) = {2}
           /\ attendance[resp.results[i].attendanceId].consecutiveLateCount = 2

----------------------------------------------------------------------------
(* Properties of startSession *)

\* C21: startSession for a class that does not exist answers 404 and for a
\* lecturer who is not the lecturer of the class 403, and both leave the
\* sessions and the registry as they were; a start that succeeds stores
\* exactly one more session, active, with the student count of the class,
\* and registers the id it returns.
C21_StartSession ==
    [][\A u \in Actors, c \in Classes \cup {NoClass} :
          StartSession(u, c) =>
              /\ resp'.code = IF c = NoClass THEN 404
                              ELSE IF Role(u) = "lecturer" /\ ClassLecturer(c) # u
                              THEN 403
                              ELSE 200
              /\ resp'.code # 200 => UNCHANGED <<sessions, activeSessions>>
              /\ resp'.code = 200 =>
                    /\ Len(sessions') = Len(sessions) + 1
                    /\ \A s \in DOMAIN sessions : sessions'[s] = sessions[s]
                    /\ resp'.sid = Len(sessions')
                    /\ sessions'[resp'.sid].status = "active"
                    /\ sessions'[resp'.sid].classId = c
                    /\ sessions'[resp'.sid].totalStudents = StudentCount(c)
                    /\ DOMAIN activeSessions' = DOMAIN activeSessions \cup {resp'.sid}
                    /\ resp'.sid \notin DOMAIN activeSessions
                    /\ \A s \in DOMAIN activeSessions :
                          activeSessions'[s] = activeSessions[s]]_vars

\* a lecturer who does not own the class has been refused while a session
\* of the class is running
C21_Witness ==
    /\ resp.op = "startSession"
    /\ resp.code = 403
    /\ Len(sessions) = 1
    /\ sessions[1].status = "active"
    /\ DOMAIN activeSessions = {1}

----------------------------------------------------------------------------
(* Properties of the registry across a restart *)

\* a session the registry lost: active in the collection, not registered
Orphaned(ses, active, s) ==
    /\ s \in DOMAIN ses
    /\ ses[s].status = "active"
    /\ s \notin DOMAIN active

\* C22: a restart leaves every session document as it was; a session that
\* is active in the collection and not in the registry stays so whatever
\* handler runs, and markAttendance and endSession for it answer 404 and
\* write nothing.
C22_OrphanedForGood ==
    [][/\ Restart => /\ sessions' = sessions
                     /\ \A s \in DOMAIN activeSessions :
                           sessions[s].status = "active"
                              => Orphaned(sessions', activeSessions', s)
       /\ \A s \in DOMAIN sessions :
             Orphaned(sessions, activeSessions, s) =>
                 /\ Orphaned(sessions', activeSessions', s)
                 /\ \A b \in Batches :
                       MarkAttendance("l1", s, "c1", b, NoFaults(b)) =>
                           resp'.code = 404 /\ attendance' = attendance
                 /\ \A u \in Actors :
                       EndSession(u, s) =>
                           resp'.code = 404 /\ sessions' = sessions]_vars

\* markAttendance has just been refused for a session that is active in the
\* collection, has records and was lost by the registry
C22_Witness ==
    /\ resp.op = "markAttendance"
    /\ resp.code = 404
    /\ Orphaned(sessions, activeSessions, resp.sid)
    /\ attendance # <<>>

----------------------------------------------------------------------------
(* Properties of overlapping markAttendance calls *)

\* the counts a markAttendance call running by itself stores for the scan
\* without a status that record r is of: one more than the run of late records
\* at the head of the student's records of earlier dates, of which the lookup
\* reads three, and 0 at the absent threshold and for a scan on time
AloneCounts(r) ==
    {DecisionTable(Missing, IsLate(now, sessions[r.sessionId].startTime),
                   Min(PREVIOUS_LIMIT, n))[2] :
        n \in HeadRuns({j \in DOMAIN attendance :
                           /\ attendance[j].studentId = r.studentId
                           /\ attendance[j].classId = r.classId
                           /\ attendance[j].date < r.date})}

\* the record the upsert of call c is keyed on
RecordOf(att, c) ==
    Matching(att, Entry(c).studentId, c.rq.classId, c.today, c.sid)

\* the upsert of a late scan by a call whose lookup ran before another call
\* stored the record of the same student, session and day
RacyUpsert(j) ==
    /\ MarkUpsert(j)
    /\ ~inflight[j].seen
    /\ RecordOf(attendance, inflight[j]) # {}
    /\ IsLate(inflight[j].at, inflight[j].startTime)

\* C23 as stated: when two overlapping markAttendance batches scan the same
\* student in the same session and both read the streak before either
\* upserts, the persisted consecutiveLateCount ends up double-incremented,
\* different from the value the two batches store when run one after the
\* other.
C23_RaceDoubleIncrements ==
    [][\A j \in DOMAIN inflight :
          RacyUpsert(j) =>
              \A i \in RecordOf(attendance, inflight[j]) :
                  attendance'[i].consecutiveLateCount
                      \notin (AloneCounts(attendance[i]))']_vars

\* C23 amended: under every interleaving of overlapping markAttendance calls
\* of one day on the same student and session, the persisted
\* consecutiveLateCount is the value a call running by itself stores; it is
\* never double-incremented, because the streak is read from the records of
\* earlier dates and the upsert writes the record of today.
C23_NeverDoubleIncremented ==
    \A i \in DOMAIN attendance :
        attendance[i].sessionId = 1 =>
            attendance[i].consecutiveLateCount \in AloneCounts(attendance[i])

\* two calls overlap on student s1: one has stored the late record with its
\* streak, the other read the streak before that and is about to upsert
C23_Witness ==
    \E j \in DOMAIN inflight :
        /\ inflight[j].pc = "upsert"
        /\ ~inflight[j].seen
        /\ IsLate(inflight[j].at, inflight[j].startTime)
        /\ \E i \in RecordOf(attendance, inflight[j]) :
               /\ attendance[i].status = "late"
               /\ attendance[i].consecutiveLateCount = inflight[j].k + 1
               /\ inflight[j].k > 0

----------------------------------------------------------------------------
(* Properties of markAttendance interleaved with endSession *)

\* C29: under every interleaving of markAttendance and endSession on the same
\* session, markAttendance creates or modifies no record of the session after
\* endSession computed the final counts: the presentCount, absentCount and
\* lateCount of a completed session are the numbers of its present, absent
\* and late records.
C29_CompletedCountsFinal ==
    sessions[1].status = "completed" =>
        /\ sessions[1].presentCount = StatusCount(attendance, 1, "present")
        /\ sessions[1].absentCount = StatusCount(attendance, 1, "absent")
        /\ sessions[1].lateCount = StatusCount(attendance, 1, "late")

----------------------------------------------------------------------------
(* Properties of the detectors *)

\* blinkCount before frame number i of the run was given to the detector
CountBefore(i) == IF i = 1 THEN 0 ELSE fed[i - 1].runner.blinkCount

\* the frames of the run at which blinkCount went up
BlinkFrames == {i \in DOMAIN fed : fed[i].runner.blinkCount > CountBefore(i)}

\* C24: for every sequence of eye readings given to the blink detector, two
\* counted blinks are at least 3 frames apart: when blinkCount goes up at
\* frame f and went up before at frame g, f - g >= 3.
C24_BlinksApart ==
    \A i, j \in BlinkFrames :
        i < j => fed[j].frame - fed[i].frame >= BLINK_DEBOUNCE_FRAMES

\* two blinks were counted in one run
C24_Witness ==
    /\ challenge.type = "blink"
    /\ Cardinality(BlinkFrames) = 2
    /\ fed[Len(fed)].runner.blinkCount = 2

\* the eyes of frame number i of the run are closed, or open
ClosedAt(i) == fed[i].reading.ear < EAR_CLOSED_THRESHOLD
OpenAt(i) == fed[i].reading.ear > EAR_OPEN_THRESHOLD

\* frames n + 1 .. n + 4 of the run read closed, closed, open, open
PatternFrom(n) ==
    /\ ClosedAt(n + 1)
    /\ ClosedAt(n + 2)
    /\ OpenAt(n + 3)
    /\ OpenAt(n + 4)

\* the run of a freshly reset detector is the pattern, g further open frames
\* and the pattern again, on consecutive frames
TwoPatterns(g) ==
    /\ Len(fed) = 8 + g
    /\ \A i \in DOMAIN fed : fed[i].frame = i
    /\ PatternFrom(0)
    /\ \A i \in 5..(4 + g) : OpenAt(i)
    /\ PatternFrom(4 + g)

\* C25: a freshly reset blink detector given closed, closed, open, open on
\* four consecutive frames, then at least 4 further open frames, then the
\* same pattern again ends with blinkCount = 2, and the blink challenge
\* reports passed from the frame of the second counted blink on and at no
\* frame before.
C25_TwoBlinksPass ==
    \A g \in 4..MaxGap :
        TwoPatterns(g) =>
            /\ fed[Len(fed)].runner.blinkCount = 2
            /\ BlinkFrames = {3, 4 + g + 3}
            /\ \A i \in DOMAIN fed : fed[i].passed <=> i >= 4 + g + 3

\* the two patterns with four open frames between them were given
C25_Witness ==
    /\ challenge.type = "blink"
    /\ TwoPatterns(4)
    /\ fed[Len(fed)].passed

\* the head-turn rule as stated, in hundredths of a pixel: the offset of the
\* nose from the centre of the face box is at least 30 and at least 0.12
\* times the width of the box
TurnedLeft(diff, width) ==
    /\ diff >= 30
    /\ 100 * diff >= 12 * width

WithMouth == {i \in DOMAIN fed : fed[i].reading.mouthWidth # NoWidth}

\* the first of them
FirstMouth == CHOOSE b \in WithMouth : \A i \in WithMouth : b <= i

\* C27 as stated: within one attempt the smile detector returns false on the
\* first reading that has mouth landmarks, whatever the mouth width, and
\* stores that width as the baseline; later readings never change the
\* baseline, and each of them passes exactly when its mouth width is at least
\* 1.15 times the baseline.
C27_SmileAgainstBaseline ==
    \A i \in WithMouth :
        LET base == fed[FirstMouth].reading.mouthWidth
            w == fed[i].reading.mouthWidth
        IN  /\ fed[i].runner.neutralMouthWidth = base
            /\ i = FirstMouth => ~fed[i].passed
            /\ i > FirstMouth =>
                   (fed[i].passed <=> 100 * w >= SMILE_EXPANSION_RATIO * base)

\* C27 amended: the same, except that a later reading passes exactly when its
\* mouth width is not 0 and is at least 1.15 times the baseline.
C27_SmileAgainstBaselineNotZero ==
    \A i \in WithMouth :
        LET base == fed[FirstMouth].reading.mouthWidth
            w == fed[i].reading.mouthWidth
        IN  /\ fed[i].runner.neutralMouthWidth = base
            /\ i = FirstMouth => ~fed[i].passed
            /\ i > FirstMouth =>
                   (fed[i].passed <=>
                       w # 0 /\ 100 * w >= SMILE_EXPANSION_RATIO * base)

\* after a wide first reading was stored as the baseline, a narrower reading
\* did not pass and a reading 1.15 times as wide as the first did
C27_Witness ==
    /\ challenge.type = "smile"
    /\ Len(fed) = 3
    /\ fed[1].reading.mouthWidth = 100
    /\ ~fed[1].passed
    /\ fed[2].reading.mouthWidth = 114
    /\ ~fed[2].passed
    /\ fed[3].reading.mouthWidth = 115
    /\ fed[3].passed
    /\ runner.neutralMouthWidth = 100

----------------------------------------------------------------------------
(* Properties of scans and the class of the session *)

\* C28: a markAttendance call on an active session is accepted and its
\* students are recorded whatever the totalStudents snapshot of the session
\* is, 0 included: the call is answered 200 with a saved result and a record
\* of the session for every scanned student.
C28_AcceptedWhateverEnrolment ==
    (resp.op = "markAttendance" /\ resp.sid \in DOMAIN activeSessions) =>
        /\ resp.code = 200
        /\ Len(resp.results) = Len(req.batch)
        /\ \A i \in DOMAIN req.batch :
               /\ resp.results[i].status = "saved"
               /\ \E j \in DOMAIN attendance :
                      /\ attendance[j].studentId = req.batch[i].studentId
                      /\ attendance[j].sessionId = resp.sid

\* a scan was recorded under an active session whose class has no enrolled
\* student
C28_Witness ==
    /\ resp.op = "markAttendance"
    /\ resp.code = 200
    /\ resp.sid \in DOMAIN activeSessions
    /\ sessions[resp.sid].totalStudents = 0
    /\ req.batch # <<>>
    /\ \E j \in DOMAIN attendance : attendance[j].sessionId = resp.sid

\* C30: every attendance record markAttendance writes under a sessionId has
\* the classId of the class the session was started for; a request whose
\* classId is another one stores no record with that sessionId.
C30_RecordsOfTheSessionsClass ==
    \A j \in DOMAIN attendance :
        attendance[j].sessionId \in DOMAIN sessions =>
            attendance[j].classId = sessions[attendance[j].sessionId].classId

----------------------------------------------------------------------------
(* Properties of repeat scans *)

\* C31: within one session a repeat scan of a student who has a record does
\* not change the status of that record: no record that exists changes its
\* status in a step of markAttendance, be it the present of an earlier scan
\* or a status that manualOverride set.
C31_RepeatScanKeepsStatus ==
    [][resp'.op = "markAttendance" =>
          \A i \in DOMAIN attendance :
              attendance'[i].status = attendance[i].status]_vars

----------------------------------------------------------------------------
(* Properties of a session across a change of the calendar day *)

\* C32: every attendance record stored under a sessionId carries the date of
\* that session, so that a student has at most one record in a session, also
\* when the scans of the session are processed on both sides of a change of
\* the calendar day.
C32_RecordsCarrySessionDate ==
    /\ \A j \in DOMAIN attendance :
           attendance[j].sessionId \in DOMAIN sessions =>
               attendance[j].date = sessions[attendance[j].sessionId].date
    /\ \A i, j \in DOMAIN attendance :
           (/\ attendance[i].sessionId = attendance[j].sessionId
            /\ attendance[i].studentId = attendance[j].studentId
            /\ attendance[i].classId = attendance[j].classId) => i = j

----------------------------------------------------------------------------
(* Properties of the blink detector *)

\* the last frame of the run before frame number i at which the eyes were
\* open, 0 when there is none
LastOpenBefore(i) ==
    LET O == {j \in 1..(i - 1) : OpenAt(j)}
    IN  IF O = {} THEN 0 ELSE CHOOSE j \in O : \A k \in O : k <= j

\* the closed frames since then
ClosedSince(i) == {j \in (LastOpenBefore(i) + 1)..(i - 1) : ClosedAt(j)}

\* two of them followed one another directly
ConsecutiveClosed(i) ==
    \E j \in ClosedSince(i) :
        /\ j + 1 \in ClosedSince(i)
        /\ fed[j + 1].frame = fed[j].frame + 1

\* the frames at which a blink was counted before frame number i
CountedBefore(i) == {j \in BlinkFrames : j < i}

\* the frame index of the last of them; lastBlinkFrame of a fresh detector
\* when there is none
LastCountedFrame(i) ==
    IF CountedBefore(i) = {} THEN -BLINK_DEBOUNCE_FRAMES - 1
    ELSE fed[CHOOSE j \in CountedBefore(i) : \A k \in CountedBefore(i) : k <= j].frame

\* blinkCount moves by 0 or 1 with every frame
CountsByOne ==
    \A i \in DOMAIN fed :
        fed[i].runner.blinkCount - CountBefore(i) \in {0, 1}

\* C33 as stated: blinkCount goes up at frame f exactly when the reading at f
\* is open, the detector was in the closed phase, the closed phase had at
\* least 2 consecutive closed frames and f - lastBlinkFrame >= 3; otherwise
\* it is unchanged, and it never goes down or up by more than 1 a frame.
C33_BlinkCountedAfterThree ==
    /\ CountsByOne
    /\ \A i \in DOMAIN fed :
           i \in BlinkFrames <=>
               /\ OpenAt(i)
               /\ ConsecutiveClosed(i)
               /\ fed[i].frame - LastCountedFrame(i) >= BLINK_DEBOUNCE_FRAMES

\* C33 amended: blinkCount goes up at frame f exactly when the reading at f
\* is open, at least 2 frames since the last open reading were closed, and
\* more than 3 frames have passed since the blink counted before
\* (f - lastBlinkFrame > 3); otherwise it is unchanged, and it never goes
\* down or up by more than 1 a frame.
C33_BlinkCountedAfterFour ==
    /\ CountsByOne
    /\ \A i \in DOMAIN fed :
           i \in BlinkFrames <=>
               /\ OpenAt(i)
               /\ Cardinality(ClosedSince(i)) >= 2
               /\ fed[i].frame - LastCountedFrame(i) > BLINK_DEBOUNCE_FRAMES

\* a blink was counted, and a closed phase of two frames that ended 3 frames
\* after it was not
C33_Witness ==
    /\ challenge.type = "blink"
    /\ BlinkFrames # {}
    /\ \E i \in DOMAIN fed :
           /\ i \notin BlinkFrames
           /\ OpenAt(i)
           /\ Cardinality(ClosedSince(i)) >= 2
           /\ fed[i].frame - LastCountedFrame(i) = BLINK_DEBOUNCE_FRAMES

\* the detector before frame number i of the run was given to it
RunnerBefore(i) == IF i = 1 THEN NewRunner ELSE fed[i - 1].runner

\* frame number i was taken as closed, as open, or left the detector as it was
TakenAsClosed(i) ==
    /\ fed[i].runner.wasClosed
    /\ fed[i].runner.closedFrameCount = RunnerBefore(i).closedFrameCount + 1

TakenAsOpen(i) ==
    /\ ~fed[i].runner.wasClosed
    /\ fed[i].runner.closedFrameCount = 0

Held(i) == fed[i].runner = RunnerBefore(i)

\* C34 as stated: a reading with average EAR <= 0.18 is taken as closed, one
\* with EAR >= 0.25 as open, and one strictly between the two leaves
\* wasClosed, closedFrameCount, lastBlinkFrame and blinkCount as they were.
C34_ThresholdsInclusive ==
    \A i \in DOMAIN fed :
        LET ear == fed[i].reading.ear
        IN  /\ ear <= EAR_CLOSED_THRESHOLD => TakenAsClosed(i)
            /\ ear >= EAR_OPEN_THRESHOLD => TakenAsOpen(i)
            /\ (EAR_CLOSED_THRESHOLD < ear /\ ear < EAR_OPEN_THRESHOLD) => Held(i)

\* C34 amended: a reading with average EAR < 0.18 is taken as closed, one
\* with EAR > 0.25 as open, and one from 0.18 to 0.25, both included, leaves
\* wasClosed, closedFrameCount, lastBlinkFrame and blinkCount as they were.
C34_ThresholdsStrict ==
    \A i \in DOMAIN fed :
        LET ear == fed[i].reading.ear
        IN  /\ ear < EAR_CLOSED_THRESHOLD => TakenAsClosed(i)
            /\ ear > EAR_OPEN_THRESHOLD => TakenAsOpen(i)
            /\ (EAR_CLOSED_THRESHOLD <= ear /\ ear <= EAR_OPEN_THRESHOLD) => Held(i)

\* in a closed phase a reading of 0.18 and one of 0.25 left the detector as
\* it was, and an open reading ended the phase
C34_Witness ==
    /\ challenge.type = "blink"
    /\ Len(fed) = 4
    /\ fed[1].reading.ear < EAR_CLOSED_THRESHOLD
    /\ fed[2].reading.ear = EAR_CLOSED_THRESHOLD
    /\ fed[3].reading.ear = EAR_OPEN_THRESHOLD
    /\ fed[3].runner.wasClosed
    /\ fed[3].runner.closedFrameCount = 1
    /\ fed[4].reading.ear > EAR_OPEN_THRESHOLD
    /\ ~fed[4].runner.wasClosed

----------------------------------------------------------------------------
(* Properties of the results of the runner *)

\* C35: for every challenge type and every sequence of readings each result
\* of the runner has 0 <= progress <= required, and passed exactly when
\* progress = required; for the blink challenge required = 2,
\* progress = min(blinkCount, required) and passed exactly when
\* blinkCount >= required.
C35_ProgressAndPassed ==
    \A i \in DOMAIN fed :
        /\ 0 <= fed[i].progress
        /\ fed[i].progress <= fed[i].required
        /\ fed[i].passed <=> fed[i].progress = fed[i].required
        /\ challenge.type = "blink" =>
               /\ fed[i].required = 2
               /\ fed[i].progress =
                      IF fed[i].runner.blinkCount < 2
                      THEN fed[i].runner.blinkCount ELSE 2
               /\ fed[i].passed <=> fed[i].runner.blinkCount >= 2

\* a third blink was counted, with the progress at 2 of 2
C35_Witness ==
    /\ challenge.type = "blink"
    /\ fed # <<>>
    /\ fed[Len(fed)].runner.blinkCount = 3
    /\ fed[Len(fed)].progress = 2
    /\ fed[Len(fed)].passed

----------------------------------------------------------------------------
(* Properties of the frame indices *)

\* C36: within one attempt the frame indices given to successive runner.run
\* calls are strictly increasing, for every interleaving of animation frames,
\* pending detections and re-runs of the detection effect.
C36_FrameIndicesIncrease ==
    \A i, j \in DOMAIN fed : i < j => fed[i].frame < fed[j].frame

----------------------------------------------------------------------------
(* Properties of a retry *)

\* C37: after a retry the detector state of the new attempt is changed only
\* by detections started after the retry. Every detection that starts
\* increments frameRef, which the retry set to 0: as long as it is 0 after a
\* retry, the runner is as the retry left it and the attempt did not pass.
C37_StaleCallNotFed ==
    (calls.retries > 0 /\ frameRef = 0)
        => (runner = NewRunner /\ challengeStatus # "success")

----------------------------------------------------------------------------
(* Properties of a frame without a face *)

\* C38: while the component is mounted, a frame for which the landmark
\* provider returns nothing increases the no-face counter by one, and a step
\* that increases it changes neither the detector state, nor progress, nor
\* the status; a frame with a face leaves the counter at 0.
C38_NoFaceFrames ==
    [][/\ (mounted /\ noFaceCount' # noFaceCount + 1) =>
            \A i \in LoopIds : ~Resolve(i, NoFace)
       /\ (mounted /\ noFaceCount' # 0) =>
            \A i \in LoopIds, o \in Readings(challenge.type) : ~Resolve(i, o)
       /\ noFaceCount' > noFaceCount =>
            /\ noFaceCount' = noFaceCount + 1
            /\ UNCHANGED <<runner, progress, challengeStatus>>]_vars

\* a frame with a face was taken by the detector, and the frame after it had
\* no face: the detector holds what the first frame left
C38_Witness ==
    /\ mounted
    /\ challengeStatus = "detecting"
    /\ calls.retries = 0
    /\ frameRef = 2
    /\ noFaceCount = 1
    /\ runner # NewRunner
    /\ loop.pc = "raf"
    /\ zombies = <<>>

----------------------------------------------------------------------------
(* Properties of reset *)

\* the readings given to a runner after a reset
AfterReadings(type) ==
    IF type = "blink" THEN ClearReadings
    ELSE IF type = "head_left"
    THEN {r \in HeadReadings : r.width = 200 /\ r.diff \in {0, 37}}
    ELSE {r \in SmileReadings : r.mouthWidth \in {NoWidth, 100, 120}}

\* the sequences of at most n of them
SequencesUpTo(S, n) == UNION {[1..k -> S] : k \in 0..n}

\* what run() returns for the readings rs given one after the other to a
\* runner in state r, the first of them as frame number frameIndex
RECURSIVE ResultsOf(_, _, _, _)
ResultsOf(type, r, rs, frameIndex) ==
    IF rs = <<>>
    THEN <<>>
    ELSE LET out == Run(type, r, Head(rs), frameIndex)
         IN  <<[passed |-> out.passed, progress |-> out.progress,
                required |-> out.required]>>
                 \o ResultsOf(type, out.runner, Tail(rs), frameIndex + 1)

\* C39: whatever readings a runner was given, after reset it returns for
\* every sequence of readings, with frame indices starting again from 1, the
\* results that a runner just created returns.
C39_ResetAsCreated ==
    \A rs \in SequencesUpTo(AfterReadings(challenge.type), MaxAfterReset) :
        ResultsOf(challenge.type, Reset(runner), rs, 1)
            = ResultsOf(challenge.type, NewRunner, rs, 1)

\* a runner that differs from a new one in all its blink detector holds:
\* a blink counted and the eyes closed again
C39_Witness ==
    /\ fed # <<>>
    /\ challenge.type = "blink"
    /\ runner.blinkCount > 0
    /\ runner.wasClosed
    /\ runner.closedFrameCount > 0
    /\ runner.lastBlinkFrame > 0

----------------------------------------------------------------------------
(* Properties of a smile without a baseline *)

\* C40: the smile challenge passes only on a reading that follows, in the
\* same attempt, a reading with mouth landmarks; an attempt without any such
\* reading never passes, whatever the number of its frames.
C40_NoPassWithoutBaseline ==
    \A i \in DOMAIN fed :
        fed[i].passed =>
            \E j \in 1..(i - 1) : fed[j].reading.mouthWidth # NoWidth

\* an attempt as long as the runs go in which no reading had mouth
\* landmarks: nothing passed and no baseline is stored
C40_Witness ==
    /\ challenge.type = "smile"
    /\ Len(fed) = MaxSmileFrames
    /\ \A i \in DOMAIN fed :
           fed[i].reading.mouthWidth = NoWidth /\ ~fed[i].passed
    /\ runner.neutralMouthWidth = NoWidth
====
